---------------------------- MODULE Spec2Model ----------------------------
(***************************************************************************)
(* Data-access resilience layer of the LittleRedFlower dashboard backend:  *)
(*   - the source registry and fallback orchestrator                       *)
(*       (api/services/data_source.py),                                    *)
(*   - the rate-limited retry client (api/services/http_client.py),        *)
(*   - the TTL cache with its trading calendar (api/services/cache.py).    *)
(* Each component has its own specification over the shared variables:     *)
(*   Spec       registry + orchestrator,                                   *)
(*   RetrySpec  retry client and global rate limiter, one caller,          *)
(*   PoolSpec   the same, called by two threads,                           *)
(*   CacheSpec  cache store driven by a wall clock, one caller,            *)
(*   RaceSpec   cache store called by two threads,                         *)
(*   TtlSpec    the default duration of set_cache,                         *)
(*   EntrySpec  cache store, set_cache called with any duration,           *)
(*   CalSpec    the trading calendar,                                      *)
(*   ConcSpec   fetch_concurrent,                                          *)
(*   AccSpec    the accessors over registry and cache,                     *)
(*   PrefSpec   registry called by two threads.                            *)
(***************************************************************************)
EXTENDS Integers, Sequences, FiniteSets, TLC

VARIABLES
    \* ---- source registry / orchestrator (data_source.py)
    config_file,      \* content of CONFIG_FILE (data_source_config.json)
    pc,               \* position of the fetch_with_fallback caller
    fetch_funcs,      \* the call's argument: source name -> closure behaviour
    current_source,   \* local of fetch_with_fallback
    sources_to_try,   \* local of fetch_with_fallback
    idx,              \* position of the for loop in sources_to_try
    last_error,       \* local of fetch_with_fallback
    calls,            \* history: closures invoked by this call, in order
    ret,              \* value returned by fetch_with_fallback
    set_result,       \* history: what the latest set_data_source call returned
    set_arg,          \* history: the argument of that call
    file_at_start     \* history: config_file when the call started

regVars == <<config_file, pc, fetch_funcs, current_source, sources_to_try,
             idx, last_error, calls, ret, set_result, set_arg, file_at_start>>

VARIABLES
    \* ---- retry client / rate limiter (http_client.py)
    now,                  \* time.time(), in ticks
    _last_request_time,   \* global of http_client.py
    _rate_lock,           \* 0: free, else the thread holding it
    rpc,                  \* per thread: position in fetch_with_retry
    func,                 \* per thread: behaviour of the wrapped function
    max_retries,          \* per thread: the max_retries argument
    attempt,              \* per thread: loop variable
    wake,                 \* per thread: when the running time.sleep ends
    calls_made,           \* history, per thread: invocations of func so far
    rret,                 \* per thread: value returned by fetch_with_retry
    last_start,           \* history: start time of the latest invocation, -1: none
    min_gap,              \* history: smallest gap between consecutive starts, -1: none
    calls_started,        \* history: fetch_with_retry calls started so far
    workers               \* the threads the host runs calls on

retryVars == <<now, _last_request_time, _rate_lock, rpc, func, max_retries,
               attempt, wake, calls_made, rret, last_start, min_gap,
               calls_started, workers>>

VARIABLES
    \* ---- cache store (cache.py)
    clock,            \* datetime.datetime.now(), seconds since Mon 2025-12-29 00:00 (Beijing)
    _CACHE,           \* the dict, as its entries in insertion order
    _set_count,       \* global of cache.py
    op,               \* history: the latest cache call, its arguments and result
    last_set,         \* history, per key: the latest set_cache of the key
    sets_done,        \* history: set_cache calls made in this run
    ticks_done        \* history: clock advances in this run

cacheVars == <<clock, _CACHE, _set_count, op, last_set, sets_done, ticks_done>>

VARIABLES
    \* ---- a set_cache call resolving its duration (cache.py)
    arg_key,          \* the key argument
    arg_ttl,          \* the duration_seconds argument: <<>> (None) or <<seconds>>
    resolved          \* duration_seconds after the defaulting: <<>> until computed

ttlVars == <<arg_key, arg_ttl, resolved>>

VARIABLES
    \* ---- cache calls made by several threads at once (cache.py)
    tpc,              \* per thread: the line of get_cache or set_cache it is at
    tkey,             \* per thread: the key argument
    tentry,           \* per thread: local entry of get_cache
    tdel,             \* per thread: local expired_keys of set_cache, yet to delete
    tdur,             \* per thread: local duration_seconds of set_cache
    tret,             \* per thread: how the call ended
    race_calls        \* history: calls started in this run

raceVars == <<tpc, tkey, tentry, tdel, tdur, tret, race_calls>>

VARIABLES
    \* ---- registry calls made by several threads at once (data_source.py)
    ppc,              \* per thread: the statement of get/set_data_source it is at
    parg,             \* per thread: the source argument of set_data_source
    pret,             \* per thread: what the call returned
    cands,            \* history, per thread: the preferences a serial run could find
    overlap,          \* history: the two latest calls are writes that overlapped
    loaded,           \* history: get_data_source has read the record since the last write
    reloaded,         \* history: get_data_source read the record when loaded
    pref_calls        \* history: calls started in this run

prefVars == <<ppc, parg, pret, cands, overlap, loaded, reloaded, pref_calls>>

VARIABLES
    \* ---- a call of the trading calendar (cache.py)
    cal_utc,          \* the instant of the call, seconds since 2025-12-28 16:00 UTC
    cal_tz,           \* how beijing_tz gets resolved in this environment
    cal_ret           \* what _is_a_share_trading_hours returned

calVars == <<cal_utc, cal_tz, cal_ret>>

VARIABLES
    \* ---- a fetch_concurrent call (http_client.py)
    cpc,              \* position of the caller: idle, sequential, pool, returned
    ctasks,           \* the tasks argument: how each task's function behaves
    cmax,             \* the max_concurrent argument
    cstate,           \* per task: waiting, running, finished or collected
    cresults,         \* local results
    peak              \* history: most task functions running at the same time

concVars == <<cpc, ctasks, cmax, cstate, cresults, peak>>

VARIABLES
    \* ---- the accessors (fund_flow.py, concepts.py, market.py, index_overview.py)
    providers,        \* environment: which providers deliver ("up") in this run
    report,           \* environment: the daily report holds a ladder
    acc_log,          \* history: the latest accessor call and what it did
    acc_calls         \* history: accessor calls made in this run

accVars == <<providers, report, acc_log, acc_calls>>

\* What the actions of one component leave alone.
notRegVars == <<retryVars, cacheVars, ttlVars, raceVars,
        prefVars,
        calVars,
        concVars,
        accVars>>

notRetryVars == <<regVars, cacheVars, ttlVars, raceVars,
        prefVars,
        calVars,
        concVars,
        accVars>>

notCacheVars == <<regVars, retryVars, ttlVars, raceVars,
        prefVars,
        calVars,
        concVars,
        accVars>>

notTtlVars == <<regVars, retryVars, cacheVars, raceVars,
        prefVars,
        calVars,
        concVars,
        accVars>>

notCalVars == <<regVars, retryVars, cacheVars, ttlVars, raceVars, prefVars,
        concVars,
        accVars>>

notConcVars == <<regVars, retryVars, cacheVars, ttlVars, raceVars, prefVars, calVars,
        accVars>>

\* The accessors change the record, the store and its counter.
notAccVars == <<pc, fetch_funcs, current_source, sources_to_try, idx,
                last_error, calls, ret, set_result, set_arg, file_at_start,
                retryVars, op, last_set, sets_done, ticks_done, ttlVars,
                raceVars, prefVars, calVars, concVars>>

\* The threads calling the registry change the file only.
notPrefVars == <<pc, fetch_funcs, current_source, sources_to_try, idx,
                 last_error, calls, ret, set_result, set_arg, file_at_start,
                 retryVars, cacheVars, ttlVars, raceVars,
        calVars,
        concVars,
        accVars>>

\* The threads calling the cache change the store and the clock only.
notRaceVars == <<regVars, retryVars, ttlVars, op, last_set, sets_done, ticks_done,
        prefVars,
        calVars,
        concVars,
        accVars>>

vars == <<regVars, retryVars, cacheVars, ttlVars, raceVars,
        prefVars,
        calVars,
        concVars,
        accVars>>

(***************************************************************************)
(* Source registry                                                         *)
(***************************************************************************)
DEFAULT_DATA_SOURCE == "eastmoney"

VALID_DATA_SOURCES == <<"eastmoney", "sina", "tushare">>

ValidSet == {VALID_DATA_SOURCES[i] : i \in 1..Len(VALID_DATA_SOURCES)}

\* What CONFIG_FILE can hold.  "absent": no file.  "corrupt": the file exists
\* but json.load raises or yields no dict (also an unreadable file).
\* "nokey": a JSON object without "data_source".  "empty": the file as
\* open(CONFIG_FILE, "w") leaves it until the record is written.  Any other
\* string is the value stored under "data_source".
FileStates == {"absent", "corrupt", "nokey", "bogus"} \cup ValidSet

\* Outcomes of writing the file in set_data_source: the write succeeds, or
\* open(CONFIG_FILE, "w") raises (nothing changed), or the write raises after
\* open(..., "w") has truncated the file.
WriteOutcomes == {"ok", "open_fails", "write_fails"}

\* The try block of get_data_source: the source it returns, "raise" when
\* open or json.load or config.get raises, "no_return" when it ends without
\* returning.
TryReadSource(file) ==
    IF file = "absent" THEN "no_return"
    ELSE IF file \in {"corrupt", "empty"} THEN "raise"
    ELSE LET source == IF file = "nokey" THEN DEFAULT_DATA_SOURCE ELSE file
         IN  IF source \in ValidSet THEN source ELSE "no_return"

\* Mutant: the exception is not caught.
get_data_source_NoExcept(file) ==
    IF TryReadSource(file) = "no_return" THEN DEFAULT_DATA_SOURCE
    ELSE TryReadSource(file)

get_data_source(file) ==
    IF TryReadSource(file) \in {"no_return", "raise"}
    THEN DEFAULT_DATA_SOURCE                 \* after the try, or after the except
    ELSE TryReadSource(file)

\* The new file content and the returned boolean.
set_data_source(file, source, w) ==
    IF source \notin ValidSet
    THEN [file |-> file, ok |-> FALSE]
    ELSE IF file = "corrupt"                 \* json.load of the old config raises
    THEN [file |-> file, ok |-> FALSE]
    ELSE IF w = "open_fails"
    THEN [file |-> file, ok |-> FALSE]
    ELSE IF w = "write_fails"
    THEN [file |-> "corrupt", ok |-> FALSE]
    ELSE [file |-> source, ok |-> TRUE]

(***************************************************************************)
(* Fallback orchestrator                                                   *)
(***************************************************************************)
\* Behaviours of a fetch closure: what it returns, or that it raises.
Kinds == {"None", "EmptyDataFrame", "DataFrame", "EmptyList", "List", "Raise"}

\* Keys a caller may pass in fetch_funcs ("yahoo" is no registered source).
SourceNames == ValidSet \cup {"yahoo"}

NoData == [kind |-> "None", from |-> "None"]

\* The payload the closure of source s returns.
Payload(s, kind) == [kind |-> kind, from |-> s]

\* Mutant: no payload is taken for a tabular one.
HasEmptyAttr_Never(kind) == FALSE

\* hasattr(data, 'empty')
HasEmptyAttr(kind) == kind \in {"EmptyDataFrame", "DataFrame"}

\* Mutant: the emptiness checks are forgotten.
DataIsValid_NotNoneOnly(kind) == kind # "None"

\* data is not None, and (not data.empty) or bool(data)
DataIsValid(kind) ==
    /\ kind # "None"
    /\ IF HasEmptyAttr(kind)
       THEN kind # "EmptyDataFrame"
       ELSE kind # "EmptyList"

RECURSIVE BuildFrom(_, _, _)
\* for source in VALID_DATA_SOURCES[i..]: append when not yet listed and offered
BuildFrom(i, acc, ff) ==
    IF i > Len(VALID_DATA_SOURCES) THEN acc
    ELSE LET source == VALID_DATA_SOURCES[i]
             listed == \E j \in 1..Len(acc) : acc[j] = source
         IN  BuildFrom(i + 1,
                       IF ~listed /\ source \in DOMAIN ff
                       THEN Append(acc, source) ELSE acc,
                       ff)

\* Mutant: the list does not start with the current preference.
BuildSources_CanonicalOnly(cur, ff) == BuildFrom(1, <<>>, ff)

BuildSources(cur, ff) == BuildFrom(1, <<cur>>, ff)

FwfStart(ff) ==
    /\ pc = "idle"
    /\ fetch_funcs' = ff
    /\ current_source' = get_data_source(config_file)
    /\ sources_to_try' = BuildSources(get_data_source(config_file), ff)
    /\ idx' = 1
    /\ last_error' = "None"
    /\ calls' = <<>>
    /\ ret' = <<NoData, "None">>
    /\ set_result' = "not_called"
    /\ set_arg' = "none"
    /\ file_at_start' = config_file
    /\ pc' = "loop"
    /\ UNCHANGED config_file
    /\ UNCHANGED notRegVars

\* One iteration of "for source in sources_to_try".
FwfSkip ==
    /\ pc = "loop"
    /\ idx <= Len(sources_to_try)
    /\ sources_to_try[idx] \notin DOMAIN fetch_funcs
    /\ idx' = idx + 1
    /\ UNCHANGED <<config_file, pc, fetch_funcs, current_source, sources_to_try,
                   last_error, calls, ret, set_result, set_arg, file_at_start>>
    /\ UNCHANGED notRegVars

FwfReject ==
    /\ pc = "loop"
    /\ idx <= Len(sources_to_try)
    /\ sources_to_try[idx] \in DOMAIN fetch_funcs
    /\ LET source == sources_to_try[idx]
           kind == fetch_funcs[source]
       IN  /\ kind = "Raise" \/ ~DataIsValid(kind)
           /\ calls' = Append(calls, source)
           /\ last_error' = IF kind = "Raise" THEN source ELSE last_error
    /\ idx' = idx + 1
    /\ UNCHANGED <<config_file, pc, fetch_funcs, current_source, sources_to_try,
                   ret, set_result, set_arg, file_at_start>>
    /\ UNCHANGED notRegVars

\* Mutant: the preference is never updated.
Promotes_Never(source, cur) == FALSE

\* if source != current_source: set_data_source(source)
Promotes(source, cur) == source # cur

FwfAccept ==
    /\ pc = "loop"
    /\ idx <= Len(sources_to_try)
    /\ sources_to_try[idx] \in DOMAIN fetch_funcs
    /\ LET source == sources_to_try[idx]
           kind == fetch_funcs[source]
       IN  /\ kind # "Raise" /\ DataIsValid(kind)
           /\ calls' = Append(calls, source)
           /\ IF Promotes(source, current_source)
              THEN \E w \in WriteOutcomes :
                     LET r == set_data_source(config_file, source, w)
                     IN  /\ config_file' = r.file
                         /\ set_result' = IF r.ok THEN "True" ELSE "False"
                         /\ set_arg' = source
              ELSE UNCHANGED <<config_file, set_result, set_arg>>
           /\ ret' = <<Payload(source, kind), source>>
    /\ pc' = "done"
    /\ UNCHANGED <<fetch_funcs, current_source, sources_to_try, idx,
                   last_error, file_at_start>>
    /\ UNCHANGED notRegVars

FwfExhausted ==
    /\ pc = "loop"
    /\ idx > Len(sources_to_try)
    /\ ret' = <<NoData, "None">>
    /\ pc' = "done"
    /\ UNCHANGED <<config_file, fetch_funcs, current_source, sources_to_try,
                   idx, last_error, calls, set_result, set_arg, file_at_start>>
    /\ UNCHANGED notRegVars

\* The caller takes the result and the call's locals are gone; the next
\* request may start.
FwfFinish ==
    /\ pc = "done"
    /\ pc' = "idle"
    /\ fetch_funcs' = <<>>
    /\ current_source' = DEFAULT_DATA_SOURCE
    /\ sources_to_try' = <<>>
    /\ idx' = 1
    /\ last_error' = "None"
    /\ calls' = <<>>
    /\ ret' = <<NoData, "None">>
    /\ set_result' = "not_called"
    /\ set_arg' = "none"
    /\ file_at_start' = config_file
    /\ UNCHANGED config_file
    /\ UNCHANGED notRegVars

\* POST /api/datasource: set_data_source(request.source)
ApiSetDataSource(source) ==
    /\ pc = "idle"
    /\ \E w \in WriteOutcomes :
         LET r == set_data_source(config_file, source, w)
         IN  /\ config_file' = r.file
             /\ set_result' = IF r.ok THEN "True" ELSE "False"
    /\ set_arg' = source
    /\ file_at_start' = config_file'
    /\ UNCHANGED <<pc, fetch_funcs, current_source, sources_to_try, idx,
                   last_error, calls, ret>>
    /\ UNCHANGED notRegVars

FetchFuncsArgs ==
    UNION {[D -> Kinds] : D \in SUBSET SourceNames}

RegInit ==
    /\ config_file \in FileStates
    /\ pc = "idle"
    /\ fetch_funcs = <<>>
    /\ current_source = DEFAULT_DATA_SOURCE
    /\ sources_to_try = <<>>
    /\ idx = 1
    /\ last_error = "None"
    /\ calls = <<>>
    /\ ret = <<NoData, "None">>
    /\ set_result = "not_called"
    /\ set_arg = "none"
    /\ file_at_start = config_file

RegNext ==
    \/ pc = "idle" /\ \E ff \in FetchFuncsArgs : FwfStart(ff)
    \/ FwfSkip
    \/ FwfReject
    \/ FwfAccept
    \/ FwfExhausted
    \/ FwfFinish
    \/ \E s \in ValidSet \cup {"bogus"} : ApiSetDataSource(s)

(***************************************************************************)
(* Rate-limited retry client (http_client.py)                              *)
(*                                                                         *)
(* Time is counted in ticks of half a second.  Worker threads call         *)
(* fetch_with_retry concurrently; a thread may be delayed for any time     *)
(* between two of its steps (Tick may fire between any two actions).       *)
(***************************************************************************)
\* Bounds of the retry model.
MaxRetries == 2

MaxCalls == 2

MaxTime == 3

\* The worker threads (0 stands for no thread).
Threads == {1, 2}

\* 0.5 s, one tick
_MIN_REQUEST_INTERVAL == 1

Min(a, b) == IF a <= b THEN a ELSE b

RECURSIVE Pow(_, _)
Pow(b, e) == IF e = 0 THEN 1 ELSE b * Pow(b, e - 1)

\* wait_time = min(3 ** (attempt + 1), 15) seconds, in ticks
wait_time(a) == Min(Pow(3, a + 1), 15) * 2

\* The substrings that make an error worth retrying, as word sequences.
retryable_errors ==
    { <<"connection">>, <<"timeout">>, <<"remote">>, <<"aborted">>,
      <<"remotedisconnected">>, <<"connectionreset">>, <<"connectionaborted">>,
      <<"connectionrefused">>, <<"brokenpipe">>, <<"eof">>,
      <<"reset", "by", "peer">>, <<"remote", "end", "closed">>,
      <<"without", "response">>, <<"broken", "pipe">> }

\* str.lower() on the words error messages are made of here.
LowerWord(w) ==
    CASE w = "Connection" -> "connection"
      [] w = "Invalid"    -> "invalid"
      [] w = "JSON"       -> "json"
      [] w = "Remote"     -> "remote"
      [] OTHER            -> w

Lower(msg) == [i \in 1..Len(msg) |-> LowerWord(msg[i])]

\* x in error_msg
Contains(msg, x) ==
    \E i \in 1..(Len(msg) - Len(x) + 1) : SubSeq(msg, i, i + Len(x) - 1) = x

\* Mutant: the message is matched without being lower-cased.
is_retryable_CaseSensitive(msg) == \E x \in retryable_errors : Contains(msg, x)

\* any(x in str(e).lower() for x in retryable_errors)
is_retryable(msg) == \E x \in retryable_errors : Contains(Lower(msg), x)

\* Messages of the errors the wrapped functions raise.
TransientMessage == <<"Connection", "refused">>

FatalMessage == <<"Invalid", "JSON">>

Ok == [raises |-> FALSE, msg |-> <<>>]

Raises(msg) == [raises |-> TRUE, msg |-> msg]

\* A wrapped function: it raises a connection error on its first `fails`
\* invocations and behaves as `then` on every later one.
FuncBehaviours ==
    [fails : 0..(MaxRetries + 1),
     error : {Raises(TransientMessage)},
     then  : {Ok, Raises(FatalMessage)}]

NoFunc == [fails |-> 0, error |-> Raises(TransientMessage), then |-> Ok]

\* What invocation number n of f does.
FuncOutcome(f, n) == IF n <= f.fails THEN f.error ELSE f.then

\* Mutant: the last attempt is not made (range(max_retries)).
MayRetry_OneShort(a, m) == a + 1 < m

\* attempt < max_retries
MayRetry(a, m) == a < m

\* Mutant: every error is retried while attempts are left.
OnError_RetryAll(msg, a, m) == IF MayRetry(a, m) THEN "retry" ELSE "break"

\* Mutant: the exception is raised again when the client gives up.
OnError_Reraise(msg, a, m) ==
    IF is_retryable(msg) /\ MayRetry(a, m) THEN "retry" ELSE "raise"

\* The except branch: sleep and continue, or break (and return None).
OnError(msg, a, m) ==
    IF is_retryable(msg) /\ MayRetry(a, m) THEN "retry" ELSE "break"

\* fetch_with_retry(func, max_retries=m) is called by thread t.
RetryCall(t, f, m) ==
    /\ t \in workers
    /\ rpc[t] = "idle"
    /\ func' = [func EXCEPT ![t] = f]
    /\ max_retries' = [max_retries EXCEPT ![t] = m]
    /\ attempt' = [attempt EXCEPT ![t] = 0]
    /\ calls_made' = [calls_made EXCEPT ![t] = 0]
    /\ rret' = [rret EXCEPT ![t] = "pending"]
    /\ rpc' = [rpc EXCEPT ![t] = "rate_limit"]
    /\ UNCHANGED <<now, _last_request_time, _rate_lock, wake, last_start, min_gap>>
    /\ calls_started < MaxCalls
    /\ calls_started' = calls_started + 1
    /\ UNCHANGED <<workers, notRetryVars>>

\* _rate_limit(): take the lock; either stamp and leave at once, or sleep
\* holding the lock.
RateLimitEnter(t) ==
    /\ rpc[t] = "rate_limit"
    /\ _rate_lock = 0
    /\ LET elapsed == now - _last_request_time
       IN  IF elapsed < _MIN_REQUEST_INTERVAL
           THEN /\ _rate_lock' = t
                /\ wake' = [wake EXCEPT ![t] = now + (_MIN_REQUEST_INTERVAL - elapsed)]
                /\ rpc' = [rpc EXCEPT ![t] = "rate_sleep"]
                /\ UNCHANGED _last_request_time
           ELSE /\ _last_request_time' = now
                /\ rpc' = [rpc EXCEPT ![t] = "invoke"]
                /\ UNCHANGED <<_rate_lock, wake>>
    /\ UNCHANGED <<now, func, max_retries, attempt, calls_made, rret,
                   last_start, min_gap>>
    /\ UNCHANGED <<calls_started, workers, notRetryVars>>

\* time.sleep(sleep_time) is over: stamp the time and release the lock.
RateLimitWake(t) ==
    /\ rpc[t] = "rate_sleep"
    /\ now >= wake[t]
    /\ _last_request_time' = now
    /\ _rate_lock' = 0
    /\ wake' = [wake EXCEPT ![t] = 0]
    /\ rpc' = [rpc EXCEPT ![t] = "invoke"]
    /\ UNCHANGED <<now, func, max_retries, attempt, calls_made, rret,
                   last_start, min_gap>>
    /\ UNCHANGED <<calls_started, workers, notRetryVars>>

\* result = func(*args, **kwargs), and what follows it.
Invoke(t) ==
    /\ rpc[t] = "invoke"
    /\ calls_made' = [calls_made EXCEPT ![t] = @ + 1]
    /\ last_start' = now
    /\ min_gap' = IF last_start = -1 THEN min_gap
                  ELSE IF min_gap = -1 THEN now - last_start
                  ELSE Min(min_gap, now - last_start)
    /\ LET out == FuncOutcome(func[t], calls_made[t] + 1)
           todo == IF out.raises
                   THEN OnError(out.msg, attempt[t], max_retries[t])
                   ELSE "return"
       IN  CASE todo = "return" ->
                  /\ rret' = [rret EXCEPT ![t] = "data"]
                  /\ rpc' = [rpc EXCEPT ![t] = "returned"]
                  /\ UNCHANGED wake
             [] todo = "retry" ->
                  /\ wake' = [wake EXCEPT ![t] = now + wait_time(attempt[t])]
                  /\ rpc' = [rpc EXCEPT ![t] = "backoff"]
                  /\ UNCHANGED rret
             [] todo = "break" ->
                  /\ rret' = [rret EXCEPT ![t] = "None"]
                  /\ rpc' = [rpc EXCEPT ![t] = "returned"]
                  /\ UNCHANGED wake
             [] OTHER ->
                  /\ rpc' = [rpc EXCEPT ![t] = "raised"]
                  /\ UNCHANGED <<rret, wake>>
    /\ UNCHANGED <<now, _last_request_time, _rate_lock, func, max_retries, attempt>>
    /\ UNCHANGED <<calls_started, workers, notRetryVars>>

\* time.sleep(wait_time) is over: continue with the next attempt.
BackoffWake(t) ==
    /\ rpc[t] = "backoff"
    /\ now >= wake[t]
    /\ wake' = [wake EXCEPT ![t] = 0]
    /\ attempt' = [attempt EXCEPT ![t] = @ + 1]
    /\ rpc' = [rpc EXCEPT ![t] = "rate_limit"]
    /\ UNCHANGED <<now, _last_request_time, _rate_lock, func, max_retries,
                   calls_made, rret, last_start, min_gap>>
    /\ UNCHANGED <<calls_started, workers, notRetryVars>>

\* The caller has the result; the thread is free for the next call.
RetryFinish(t) ==
    /\ rpc[t] = "returned"
    /\ rpc' = [rpc EXCEPT ![t] = "idle"]
    /\ func' = [func EXCEPT ![t] = NoFunc]
    /\ max_retries' = [max_retries EXCEPT ![t] = 0]
    /\ attempt' = [attempt EXCEPT ![t] = 0]
    /\ calls_made' = [calls_made EXCEPT ![t] = 0]
    /\ rret' = [rret EXCEPT ![t] = "pending"]
    /\ UNCHANGED <<now, _last_request_time, _rate_lock, wake, last_start, min_gap>>
    /\ UNCHANGED <<calls_started, workers, notRetryVars>>

\* Time passes: by one tick (in the window the model follows tick by tick),
\* or until a sleeping thread is due.
Tick ==
    /\ \/ now < MaxTime /\ now' = now + 1
       \/ \E t \in Threads :
            rpc[t] \in {"rate_sleep", "backoff"} /\ wake[t] > now /\ now' = wake[t]
    /\ UNCHANGED <<_last_request_time, _rate_lock, rpc, func, max_retries,
                   attempt, wake, calls_made, rret, last_start, min_gap>>
    /\ UNCHANGED <<calls_started, workers, notRetryVars>>

\* _last_request_time = 0.0 and the clock is far past it.
RetryInit ==
    /\ now = _MIN_REQUEST_INTERVAL
    /\ _last_request_time = 0
    /\ _rate_lock = 0
    /\ rpc = [t \in Threads |-> "idle"]
    /\ func = [t \in Threads |-> NoFunc]
    /\ max_retries = [t \in Threads |-> 0]
    /\ attempt = [t \in Threads |-> 0]
    /\ wake = [t \in Threads |-> 0]
    /\ calls_made = [t \in Threads |-> 0]
    /\ rret = [t \in Threads |-> "pending"]
    /\ last_start = -1
    /\ min_gap = -1
    /\ calls_started = 0

RetryNext ==
    \/ \E t \in Threads :
         rpc[t] = "idle" /\ \E m \in 0..MaxRetries :
                               \E f \in {g \in FuncBehaviours : g.fails <= m + 1} :
                                  RetryCall(t, f, m)
    \/ \E t \in Threads : RateLimitEnter(t)
    \/ \E t \in Threads : RateLimitWake(t)
    \/ \E t \in Threads : Invoke(t)
    \/ \E t \in Threads : BackoffWake(t)
    \/ \E t \in Threads : RetryFinish(t)
    \/ Tick

(***************************************************************************)
(* Cache store and trading calendar (cache.py)                             *)
(*                                                                         *)
(* A key is the sequence of the pieces it is made of ("index_overview" and *)
(* "_sina" for "index_overview_sina"); a prefix is a sequence of pieces.   *)
(* The clock counts seconds from Monday 2025-12-29 00:00 Beijing time, on  *)
(* a host whose local time is Beijing time; the datetime.now() reads of    *)
(* one call return the same instant.                                       *)
(***************************************************************************)
MAX_CACHE_SIZE == 100

_NON_TRADING_DURATION == 3600

\* for prefix, default_duration in CACHE_DURATIONS.items(), in dict order
CACHE_DURATIONS ==
    << <<"index_overview", 900>>, <<"market_radar", 900>>, <<"fund_flow", 1800>>,
       <<"hot_concepts", 1800>>, <<"stock_diagnosis", 60>>, <<"stock_list", 3600>>,
       <<"dashboard_all", 300>> >>

_EXTENDED_CACHE_KEYS == {"index_overview", "market_radar", "dashboard_all"}

\* Bounds of the cache model.
MaxSets == 2

MaxTicks == 3

\* key.startswith(prefix), for a prefix of one piece
StartsWith(key, prefix) == Len(key) >= 1 /\ key[1] = prefix

\* Mutant: only the key equal to the prefix matches.
StartsWithSeq_Exact(key, prefix) == key = prefix

\* key.startswith(prefix), for a prefix of several pieces
StartsWithSeq(key, prefix) ==
    Len(prefix) <= Len(key) /\ SubSeq(key, 1, Len(prefix)) = prefix

\* _CN_HOLIDAYS_2026, as days since 2025-12-29
_CN_HOLIDAYS_2026 ==
    {3, 4, 5, 48, 49, 50, 51, 52, 53, 54, 96, 97, 98, 123, 124, 125, 126, 127,
     153, 154, 155, 276, 277, 278, 279, 280, 281, 282, 283}

_is_cn_holiday(d) == d \in _CN_HOLIDAYS_2026

\* datetime.time(h, m) as seconds of the day
TimeOfDay(h, m) == h * 3600 + m * 60

\* Mutant: weekends count as trading days.
_is_a_share_trading_hours_NoWeekend(t) ==
    LET day == t \div 86400
        tod == t % 86400
    IN  IF _is_cn_holiday(day) THEN FALSE
        ELSE IF TimeOfDay(9, 25) <= tod /\ tod <= TimeOfDay(11, 30) THEN TRUE
        ELSE IF TimeOfDay(13, 0) <= tod /\ tod <= TimeOfDay(15, 0) THEN TRUE
        ELSE FALSE

\* _is_a_share_trading_hours() at clock value t
_is_a_share_trading_hours(t) ==
    LET day == t \div 86400
        weekday == day % 7               \* 0 is Monday
        tod == t % 86400
    IN  IF weekday >= 5 THEN FALSE
        ELSE IF _is_cn_holiday(day) THEN FALSE
        ELSE IF TimeOfDay(9, 25) <= tod /\ tod <= TimeOfDay(11, 30) THEN TRUE
        ELSE IF TimeOfDay(13, 0) <= tod /\ tod <= TimeOfDay(15, 0) THEN TRUE
        ELSE FALSE

Max(a, b) == IF a >= b THEN a ELSE b

\* Mutant: the extended duration replaces the requested one.
_get_effective_duration_Flat(key, duration_seconds, t) ==
    IF /\ \E prefix \in _EXTENDED_CACHE_KEYS : StartsWith(key, prefix)
       /\ ~_is_a_share_trading_hours(t)
    THEN _NON_TRADING_DURATION
    ELSE duration_seconds

_get_effective_duration(key, duration_seconds, t) ==
    IF /\ \E prefix \in _EXTENDED_CACHE_KEYS : StartsWith(key, prefix)
       /\ ~_is_a_share_trading_hours(t)
    THEN Max(duration_seconds, _NON_TRADING_DURATION)
    ELSE duration_seconds

RECURSIVE DefaultFrom(_, _)
\* Mutant: the table of defaults is ignored.
DefaultFrom_Flat(i, key) == 300

\* the for ... else over CACHE_DURATIONS, from its i-th item on
DefaultFrom(i, key) ==
    IF i > Len(CACHE_DURATIONS) THEN 300
    ELSE IF StartsWith(key, CACHE_DURATIONS[i][1]) THEN CACHE_DURATIONS[i][2]
    ELSE DefaultFrom(i + 1, key)

\* duration_seconds after "if duration_seconds is None"; ttl is <<>> (None)
\* or <<seconds>>
ResolveDuration(key, ttl) == IF ttl = <<>> THEN DefaultFrom(1, key) ELSE ttl[1]

\* ---- the dict
Keys(cache) == {cache[i].key : i \in 1..Len(cache)}

Entry(cache, key) == cache[CHOOSE i \in 1..Len(cache) : cache[i].key = key]

\* Mutant: a deletion empties the dict.
DictDel_All(cache, ks) == IF ks = {} THEN cache ELSE <<>>

\* del cache[k] for every k in ks
DictDel(cache, ks) == SelectSeq(cache, LAMBDA e : e.key \notin ks)

\* cache[e.key] = e: an existing key keeps its place, a new one goes last
DictSet(cache, e) ==
    IF e.key \in Keys(cache)
    THEN [i \in 1..Len(cache) |-> IF cache[i].key = e.key THEN e ELSE cache[i]]
    ELSE Append(cache, e)

\* Mutant: entries never expire.
IsExpired_Never(e, t) == FALSE

\* now > v["expires_at"]
IsExpired(e, t) == t > e.expires_at

\* [k for k, v in _CACHE.items() if now > v["expires_at"]]
ExpiredKeys(cache, t) ==
    {cache[i].key : i \in {j \in 1..Len(cache) : IsExpired(cache[j], t)}}

\* Mutant: the sweep runs on calls 1, 11, 21, ...
SweepDue_OffByOne(n) == n % 10 = 1

\* _set_count % 10 == 0
SweepDue(n) == n % 10 = 0

\* Mutant: the entry inserted first is evicted.
OldestKey_FirstInserted(cache) == cache[1].key

\* min(_CACHE, key=lambda k: _CACHE[k]["created_at"]): the first, in dict
\* order, of the entries created earliest
OldestKey(cache) ==
    LET i == CHOOSE i \in 1..Len(cache) :
                 \A j \in 1..Len(cache) :
                     \/ cache[i].created_at < cache[j].created_at
                     \/ cache[i].created_at = cache[j].created_at /\ i <= j
    IN  cache[i].key

\* Mutant: the store may grow to MAX_CACHE_SIZE + 1 entries.
AtCapacity_Late(cache) == Len(cache) > MAX_CACHE_SIZE

\* len(_CACHE) >= MAX_CACHE_SIZE
AtCapacity(cache) == Len(cache) >= MAX_CACHE_SIZE

NoneResult == <<>>

\* Keys the callers of this run use.
OpKeys == { <<"index_overview", "_sina">>, <<"watchlist_quote_", "2">> }

\* The ttl arguments: None, 2 hours.
TtlArgs == { <<>>, <<7200>> }

NotSet == [at |-> 0, ttl |-> <<>>, data |-> 0, live |-> FALSE, evicted |-> FALSE]

\* set_cache(key, data, duration_seconds=ttl); data is the number of the call
SetCache(key, ttl) ==
    /\ sets_done < MaxSets
    /\ sets_done' = sets_done + 1
    /\ LET duration_seconds == _get_effective_duration(key, ResolveDuration(key, ttl), clock)
           count == _set_count + 1
           swept == IF SweepDue(count) THEN ExpiredKeys(_CACHE, clock) ELSE {}
           c1 == DictDel(_CACHE, swept)
           evicted == IF AtCapacity(c1) THEN {OldestKey(c1)} ELSE {}
           c2 == DictDel(c1, evicted)
           e == [key |-> key, data |-> count,
                 expires_at |-> clock + duration_seconds, created_at |-> clock]
       IN  /\ _set_count' = count
           /\ _CACHE' = DictSet(c2, e)
           /\ op' = [name |-> "set", at |-> clock, key |-> key, ttl |-> ttl, result |-> NoneResult,
                     swept |-> swept, evicted |-> evicted]
           /\ last_set' = [k \in OpKeys |->
                             IF k = key
                             THEN [at |-> clock, ttl |-> ttl, data |-> count,
                                   live |-> TRUE, evicted |-> FALSE]
                             ELSE IF k \in evicted
                             THEN [last_set[k] EXCEPT !.evicted = TRUE]
                             ELSE last_set[k]]
    /\ UNCHANGED <<clock, ticks_done, notCacheVars>>

\* get_cache(key)
GetCache(key) ==
    /\ IF key \notin Keys(_CACHE)
       THEN /\ op' = [name |-> "get", at |-> clock, key |-> key, ttl |-> <<>>, result |-> NoneResult,
                      swept |-> {}, evicted |-> {}]
            /\ UNCHANGED _CACHE
       ELSE IF IsExpired(Entry(_CACHE, key), clock)
       THEN /\ _CACHE' = DictDel(_CACHE, {key})
            /\ op' = [name |-> "get", at |-> clock, key |-> key, ttl |-> <<>>, result |-> NoneResult,
                      swept |-> {}, evicted |-> {}]
       ELSE /\ op' = [name |-> "get", at |-> clock, key |-> key, ttl |-> <<>>,
                      result |-> <<Entry(_CACHE, key).data>>,
                      swept |-> {}, evicted |-> {}]
            /\ UNCHANGED _CACHE
    /\ UNCHANGED <<clock, _set_count, last_set, sets_done, ticks_done, notCacheVars>>

\* clear_cache(prefix); all = TRUE stands for prefix None
ClearCache(all, prefix) ==
    /\ LET gone == IF all THEN Keys(_CACHE)
                   ELSE {k \in Keys(_CACHE) : StartsWithSeq(k, prefix)}
       IN  /\ _CACHE' = DictDel(_CACHE, gone)
           /\ op' = [name |-> "clear", at |-> clock, key |-> prefix, ttl |-> <<>>,
                     result |-> <<Cardinality(gone)>>, swept |-> {}, evicted |-> {}]
           /\ last_set' = [k \in OpKeys |->
                             IF all \/ StartsWithSeq(k, prefix) THEN NotSet ELSE last_set[k]]
    /\ UNCHANGED <<clock, _set_count, sets_done, ticks_done, notCacheVars>>

\* get_cache_stats(): total, expired and active entries
get_cache_stats(cache, t) ==
    LET total == Len(cache)
        expired == Cardinality(ExpiredKeys(cache, t))
    IN  [total_entries |-> total, expired_entries |-> expired,
         active_entries |-> total - expired, keys |-> Keys(cache)]

GetCacheStats ==
    /\ op' = [name |-> "stats", at |-> clock, key |-> <<>>, ttl |-> <<>>,
              result |-> <<get_cache_stats(_CACHE, clock).expired_entries>>,
              swept |-> {}, evicted |-> {}]
    /\ UNCHANGED <<clock, _CACHE, _set_count, last_set, sets_done, ticks_done,
                   notCacheVars>>

\* Time passes, half an hour at a time.
ClockStep == 1800

CacheTick ==
    /\ ticks_done < MaxTicks
    /\ ticks_done' = ticks_done + 1
    /\ clock' = clock + ClockStep
    /\ UNCHANGED <<_CACHE, _set_count, op, last_set, sets_done, notCacheVars>>

\* 10:30 on Monday 2026-01-05 (trading until 11:30), on Saturday 2026-01-10
\* and on Thursday 2026-01-01 (a holiday).
StartTimes ==
    { 7 * 86400 + TimeOfDay(10, 30), 12 * 86400 + TimeOfDay(10, 30),
      3 * 86400 + TimeOfDay(10, 30) }

\* The store holding MAX_CACHE_SIZE watchlist quotes, set one a second in
\* the minutes before t with 300 s to live; the first one was set again a
\* second ago.
FullCache(t) ==
    [i \in 1..MAX_CACHE_SIZE |->
        LET at == IF i = 1 THEN t - 1 ELSE t - 2 - MAX_CACHE_SIZE + i
        IN  [key |-> <<"watchlist_quote_", ToString(i)>>, data |-> i,
             expires_at |-> at + 300, created_at |-> at]]

NoOp == [name |-> "none", at |-> 0, key |-> <<>>, ttl |-> <<>>, result |-> NoneResult,
         swept |-> {}, evicted |-> {}]

\* What last_set says of key k when the store is cache.
LastSetOf(cache, k) ==
    IF k \in Keys(cache)
    THEN [at |-> Entry(cache, k).created_at, ttl |-> <<>>,
          data |-> Entry(cache, k).data, live |-> TRUE, evicted |-> FALSE]
    ELSE NotSet

\* The store of a fresh process (_CACHE = {}, _set_count = 0), or of a
\* process whose 108 calls filled the store.
CacheInit ==
    /\ clock \in StartTimes
    /\ \/ _CACHE = <<>> /\ _set_count = 0
       \/ _CACHE = FullCache(clock) /\ _set_count = MAX_CACHE_SIZE + 8
    /\ op = NoOp
    /\ last_set = [k \in OpKeys |-> LastSetOf(_CACHE, k)]
    /\ sets_done = 0
    /\ ticks_done = 0

CacheIdle ==
    /\ clock = 0
    /\ _CACHE = <<>>
    /\ _set_count = 0
    /\ op = NoOp
    /\ last_set = [k \in OpKeys |-> NotSet]
    /\ sets_done = 0
    /\ ticks_done = 0

CacheNext ==
    \/ \E key \in OpKeys, ttl \in TtlArgs : SetCache(key, ttl)
    \/ \E key \in OpKeys : GetCache(key)
    \/ ClearCache(TRUE, <<>>)
    \/ \E prefix \in {<<"index_overview">>, <<"watchlist_quote_">>} : ClearCache(FALSE, prefix)
    \/ GetCacheStats
    \/ CacheTick

\* pytz.timezone("Asia/Shanghai") succeeds ("zone"), or it raises and
\* pytz.FixedOffset(480) takes its place ("fixed_offset").
TzOutcomes == {"zone", "fixed_offset"}

\* The offset from UTC, in seconds, of the resolved beijing_tz: China has
\* kept UTC+8 without daylight saving all year; FixedOffset counts minutes.
UtcOffset(tz) == IF tz = "zone" THEN 8 * 3600 ELSE 480 * 60

\* datetime.datetime.now(beijing_tz), as seconds since Mon 2025-12-29 00:00
\* on the wall clock of beijing_tz.
BeijingNow(tz, utc) == utc + UtcOffset(tz)

\* The days the calendar is asked about: the two weeks from Mon 2025-12-29
\* (New Year holidays included), and days in and next to the other holidays
\* (Sun 02-15, Tue 02-17, Sat 04-04, Mon 04-06, Thu 10-01, Thu 10-08,
\* Fri 10-09).
CalDays == (0..13) \cup {48, 50, 96, 98, 276, 283, 284}

\* The times of day: midnight, both ends of both sessions and the seconds
\* next to them, the middle of the sessions and of the break, the last
\* second of the day.
CalTimes ==
    { 0, TimeOfDay(9, 25) - 1, TimeOfDay(9, 25), TimeOfDay(10, 30),
      TimeOfDay(11, 30), TimeOfDay(11, 30) + 1, TimeOfDay(12, 0),
      TimeOfDay(13, 0) - 1, TimeOfDay(13, 0), TimeOfDay(14, 0),
      TimeOfDay(15, 0), TimeOfDay(15, 0) + 1, 86399 }

\* _is_a_share_trading_hours()
TradingHoursCall ==
    /\ cal_ret = "pending"
    /\ cal_ret' = IF _is_a_share_trading_hours(BeijingNow(cal_tz, cal_utc))
                  THEN "True" ELSE "False"
    /\ UNCHANGED <<cal_utc, cal_tz>>
    /\ UNCHANGED notCalVars

CalInit ==
    /\ cal_utc \in {d * 86400 + tod - 8 * 3600 : d \in CalDays, tod \in CalTimes}
    /\ cal_tz \in TzOutcomes
    /\ cal_ret = "pending"

CalIdle ==
    /\ cal_utc = 0
    /\ cal_tz = "zone"
    /\ cal_ret = "pending"

CalNext == TradingHoursCall

\* set_cache takes any integer as duration_seconds (it checks nothing):
\* the durations above, a second, none at all, a negative one.
AnyTtlArgs == TtlArgs \cup { <<1>>, <<0>>, <<-60>> }

\* A fresh process.
EntryInit == CacheInit /\ _CACHE = <<>>

EntryNext ==
    \/ \E key \in OpKeys, ttl \in AnyTtlArgs : SetCache(key, ttl)
    \/ \E key \in OpKeys : GetCache(key)
    \/ CacheTick

(***************************************************************************)
(* fetch_concurrent and fetch_sequential (http_client.py)                  *)
(*                                                                         *)
(* A task is a fetch_with_retry call around the task's function; it never  *)
(* raises, and yields None when the function fails.  The rate limiter      *)
(* spaces the starts of the functions, not their ends: a function may run  *)
(* for any time, so the steps below carry no clock.                        *)
(***************************************************************************)
\* Bounds of this model: tasks in a call, values of max_concurrent.
MaxTasks == 4

MaxConcurrentArg == 3

\* ThreadPoolExecutor(max_workers=4)
max_workers == 4

\* What a task's function does.
TaskKinds == {"ok", "fail"}

\* What fetch_with_retry returns for task i: its data, or None.
TaskResult(i, kind) == IF kind = "ok" THEN <<i>> ELSE <<>>

Running(st) == {i \in 1..Len(st) : st[i] = "running"}

\* fetch_concurrent(tasks, max_concurrent): up to two tasks go to
\* fetch_sequential, more are all submitted to the executor.
FetchConcurrentCall(tasks, n) ==
    /\ cpc = "idle"
    /\ ctasks' = tasks
    /\ cmax' = n
    /\ cstate' = [i \in 1..Len(tasks) |-> "waiting"]
    /\ IF Len(tasks) <= 2
       THEN cpc' = "sequential" /\ cresults' = <<>>
       ELSE cpc' = "pool" /\ cresults' = [i \in 1..Len(tasks) |-> <<>>]
    /\ peak' = 0
    /\ UNCHANGED notConcVars

\* fetch_sequential: the loop calls fetch_with_retry for the next task.
SequentialStart ==
    /\ cpc = "sequential"
    /\ Running(cstate) = {}
    /\ Len(cresults) < Len(ctasks)
    /\ cstate' = [cstate EXCEPT ![Len(cresults) + 1] = "running"]
    /\ peak' = Max(peak, 1)
    /\ UNCHANGED <<cpc, ctasks, cmax, cresults>>
    /\ UNCHANGED notConcVars

\* results.append(result)
SequentialEnd ==
    /\ cpc = "sequential"
    /\ \E i \in Running(cstate) :
         /\ cstate' = [cstate EXCEPT ![i] = "collected"]
         /\ cresults' = Append(cresults, TaskResult(i, ctasks[i]))
    /\ UNCHANGED <<cpc, ctasks, cmax, peak>>
    /\ UNCHANGED notConcVars

\* A free worker of the executor takes the oldest submitted task.
WorkerStart ==
    /\ cpc = "pool"
    /\ Cardinality(Running(cstate)) < max_workers
    /\ \E i \in 1..Len(ctasks) :
         /\ cstate[i] = "waiting"
         /\ \A j \in 1..(i - 1) : cstate[j] # "waiting"
         /\ cstate' = [cstate EXCEPT ![i] = "running"]
         /\ peak' = Max(peak, Cardinality(Running(cstate)) + 1)
    /\ UNCHANGED <<cpc, ctasks, cmax, cresults>>
    /\ UNCHANGED notConcVars

\* The task of some worker ends and its future completes.
WorkerEnd(i) ==
    /\ cpc = "pool"
    /\ i \in Running(cstate)
    /\ cstate' = [cstate EXCEPT ![i] = "finished"]
    /\ UNCHANGED <<cpc, ctasks, cmax, cresults, peak>>
    /\ UNCHANGED notConcVars

\* for future in as_completed(futures): results[idx] = future.result()
Collect(i) ==
    /\ cpc = "pool"
    /\ i \in 1..Len(ctasks)
    /\ cstate[i] = "finished"
    /\ cstate' = [cstate EXCEPT ![i] = "collected"]
    /\ cresults' = [cresults EXCEPT ![i] = TaskResult(i, ctasks[i])]
    /\ UNCHANGED <<cpc, ctasks, cmax, peak>>
    /\ UNCHANGED notConcVars

\* return results
ConcReturn ==
    /\ cpc \in {"sequential", "pool"}
    /\ \A i \in 1..Len(ctasks) : cstate[i] = "collected"
    /\ cpc' = "returned"
    /\ UNCHANGED <<ctasks, cmax, cstate, cresults, peak>>
    /\ UNCHANGED notConcVars

ConcIdle ==
    /\ cpc = "idle"
    /\ ctasks = <<>>
    /\ cmax = 2
    /\ cstate = <<>>
    /\ cresults = <<>>
    /\ peak = 0

TaskLists == UNION {[1..k -> TaskKinds] : k \in 0..MaxTasks}

ConcNext ==
    \/ \E tasks \in TaskLists, n \in 1..MaxConcurrentArg : FetchConcurrentCall(tasks, n)
    \/ SequentialStart
    \/ SequentialEnd
    \/ WorkerStart
    \/ \E i \in 1..MaxTasks : WorkerEnd(i)
    \/ \E i \in 1..MaxTasks : Collect(i)
    \/ ConcReturn

(***************************************************************************)
(* The cache store called by several threads (cache.py)                    *)
(*                                                                         *)
(* The request handlers and the executor tasks call get_cache and          *)
(* set_cache from several threads; cache.py takes no lock.  A thread may   *)
(* be preempted between two statements, so each action below is one        *)
(* statement (or a run of statements that touch the dict once).            *)
(***************************************************************************)
\* Bounds of this model.
MaxRaceCalls == 3

MaxRaceTicks == 1

NoEntry == [key |-> <<>>, data |-> 0, expires_at |-> 0, created_at |-> 0]

\* thread t calls get_cache(key)
RaceGetCall(t, key) ==
    /\ tpc[t] = "idle"
    /\ race_calls < MaxRaceCalls
    /\ race_calls' = race_calls + 1
    /\ tkey' = [tkey EXCEPT ![t] = key]
    /\ tpc' = [tpc EXCEPT ![t] = "get_contains"]
    /\ UNCHANGED <<tentry, tdel, tdur, tret, clock, _CACHE, _set_count, notRaceVars>>

\* if key not in _CACHE: return None
GetContains(t) ==
    /\ tpc[t] = "get_contains"
    /\ IF tkey[t] \notin Keys(_CACHE)
       THEN /\ tret' = [tret EXCEPT ![t] = "None"]
            /\ tpc' = [tpc EXCEPT ![t] = "returned"]
       ELSE /\ tpc' = [tpc EXCEPT ![t] = "get_load"]
            /\ UNCHANGED tret
    /\ UNCHANGED <<tkey, tentry, tdel, tdur, race_calls, clock, _CACHE, _set_count,
                   notRaceVars>>

\* entry = _CACHE[key]
GetLoad(t) ==
    /\ tpc[t] = "get_load"
    /\ IF tkey[t] \notin Keys(_CACHE)
       THEN /\ tret' = [tret EXCEPT ![t] = "KeyError"]
            /\ tpc' = [tpc EXCEPT ![t] = "raised"]
            /\ UNCHANGED tentry
       ELSE /\ tentry' = [tentry EXCEPT ![t] = Entry(_CACHE, tkey[t])]
            /\ tpc' = [tpc EXCEPT ![t] = "get_expiry"]
            /\ UNCHANGED tret
    /\ UNCHANGED <<tkey, tdel, tdur, race_calls, clock, _CACHE, _set_count,
                   notRaceVars>>

\* if datetime.datetime.now() > entry["expires_at"]: ... else return entry["data"]
GetExpiry(t) ==
    /\ tpc[t] = "get_expiry"
    /\ IF IsExpired(tentry[t], clock)
       THEN /\ tpc' = [tpc EXCEPT ![t] = "get_del"]
            /\ UNCHANGED tret
       ELSE /\ tret' = [tret EXCEPT ![t] = "data"]
            /\ tpc' = [tpc EXCEPT ![t] = "returned"]
    /\ UNCHANGED <<tkey, tentry, tdel, tdur, race_calls, clock, _CACHE, _set_count,
                   notRaceVars>>

\* del _CACHE[key]; return None
GetDel(t) ==
    /\ tpc[t] = "get_del"
    /\ IF tkey[t] \notin Keys(_CACHE)
       THEN /\ tret' = [tret EXCEPT ![t] = "KeyError"]
            /\ tpc' = [tpc EXCEPT ![t] = "raised"]
            /\ UNCHANGED _CACHE
       ELSE /\ _CACHE' = DictDel(_CACHE, {tkey[t]})
            /\ tret' = [tret EXCEPT ![t] = "None"]
            /\ tpc' = [tpc EXCEPT ![t] = "returned"]
    /\ UNCHANGED <<tkey, tentry, tdel, tdur, race_calls, clock, _set_count,
                   notRaceVars>>

\* thread t calls set_cache(key, data): the duration is resolved, the call
\* is counted and, on a 10th call, expired_keys is collected.
RaceSetCall(t, key) ==
    /\ tpc[t] = "idle"
    /\ race_calls < MaxRaceCalls
    /\ race_calls' = race_calls + 1
    /\ tkey' = [tkey EXCEPT ![t] = key]
    /\ tdur' = [tdur EXCEPT ![t] =
                   _get_effective_duration(key, ResolveDuration(key, <<>>), clock)]
    /\ _set_count' = _set_count + 1
    /\ tdel' = [tdel EXCEPT ![t] =
                   IF SweepDue(_set_count + 1)
                   THEN LET x == SelectSeq(_CACHE, LAMBDA e : IsExpired(e, clock))
                        IN  [i \in 1..Len(x) |-> x[i].key]
                   ELSE <<>>]
    /\ tpc' = [tpc EXCEPT ![t] = "set_sweep"]
    /\ UNCHANGED <<tentry, tret, clock, _CACHE, notRaceVars>>

\* for k in expired_keys: del _CACHE[k]  (one turn of the loop)
SetSweepDel(t) ==
    /\ tpc[t] = "set_sweep"
    /\ tdel[t] # <<>>
    /\ IF Head(tdel[t]) \notin Keys(_CACHE)
       THEN /\ tret' = [tret EXCEPT ![t] = "KeyError"]
            /\ tpc' = [tpc EXCEPT ![t] = "raised"]
            /\ UNCHANGED <<_CACHE, tdel>>
       ELSE /\ _CACHE' = DictDel(_CACHE, {Head(tdel[t])})
            /\ tdel' = [tdel EXCEPT ![t] = Tail(tdel[t])]
            /\ UNCHANGED <<tret, tpc>>
    /\ UNCHANGED <<tkey, tentry, tdur, race_calls, clock, _set_count, notRaceVars>>

\* if len(_CACHE) >= MAX_CACHE_SIZE: del _CACHE[oldest_key]
SetEvict(t) ==
    /\ tpc[t] = "set_sweep"
    /\ tdel[t] = <<>>
    /\ _CACHE' = IF AtCapacity(_CACHE) THEN DictDel(_CACHE, {OldestKey(_CACHE)})
                 ELSE _CACHE
    /\ tpc' = [tpc EXCEPT ![t] = "set_store"]
    /\ UNCHANGED <<tkey, tentry, tdel, tdur, tret, race_calls, clock, _set_count,
                   notRaceVars>>

\* _CACHE[key] = {...}
SetStore(t) ==
    /\ tpc[t] = "set_store"
    /\ _CACHE' = DictSet(_CACHE, [key |-> tkey[t], data |-> _set_count,
                                  expires_at |-> clock + tdur[t],
                                  created_at |-> clock])
    /\ tret' = [tret EXCEPT ![t] = "None"]
    /\ tpc' = [tpc EXCEPT ![t] = "returned"]
    /\ UNCHANGED <<tkey, tentry, tdel, tdur, race_calls, clock, _set_count,
                   notRaceVars>>

\* The call is over (returned or raised); the thread takes the next one.
RaceFinish(t) ==
    /\ tpc[t] \in {"returned", "raised"}
    /\ tpc' = [tpc EXCEPT ![t] = "idle"]
    /\ tkey' = [tkey EXCEPT ![t] = <<>>]
    /\ tentry' = [tentry EXCEPT ![t] = NoEntry]
    /\ tdel' = [tdel EXCEPT ![t] = <<>>]
    /\ tdur' = [tdur EXCEPT ![t] = 0]
    /\ tret' = [tret EXCEPT ![t] = "pending"]
    /\ UNCHANGED <<race_calls, clock, _CACHE, _set_count, notRaceVars>>

\* Time passes.
RaceTick ==
    /\ clock < 7 * 86400 + TimeOfDay(10, 30) + MaxRaceTicks * ClockStep
    /\ clock' = clock + ClockStep
    /\ UNCHANGED <<raceVars, _CACHE, _set_count, notRaceVars>>

\* Monday 10:30; 9 set_cache calls so far, the last two of which stored the
\* two keys a second ago.
RaceInit ==
    /\ clock = 7 * 86400 + TimeOfDay(10, 30)
    /\ _CACHE = << [key |-> <<"index_overview", "_sina">>, data |-> 8,
                    expires_at |-> clock - 1 + 900, created_at |-> clock - 1],
                   [key |-> <<"watchlist_quote_", "2">>, data |-> 9,
                    expires_at |-> clock - 1 + 300, created_at |-> clock - 1] >>
    /\ _set_count = 9
    /\ op = NoOp
    /\ last_set = [k \in OpKeys |-> NotSet]
    /\ sets_done = 0
    /\ ticks_done = 0
    /\ tpc = [t \in Threads |-> "idle"]
    /\ tkey = [t \in Threads |-> <<>>]
    /\ tentry = [t \in Threads |-> NoEntry]
    /\ tdel = [t \in Threads |-> <<>>]
    /\ tdur = [t \in Threads |-> 0]
    /\ tret = [t \in Threads |-> "pending"]
    /\ race_calls = 0

RaceIdle ==
    /\ tpc = [t \in Threads |-> "idle"]
    /\ tkey = [t \in Threads |-> <<>>]
    /\ tentry = [t \in Threads |-> NoEntry]
    /\ tdel = [t \in Threads |-> <<>>]
    /\ tdur = [t \in Threads |-> 0]
    /\ tret = [t \in Threads |-> "pending"]
    /\ race_calls = 0

RaceNext ==
    \/ \E t \in Threads, key \in OpKeys : RaceGetCall(t, key)
    \/ \E t \in Threads : GetContains(t)
    \/ \E t \in Threads : GetLoad(t)
    \/ \E t \in Threads : GetExpiry(t)
    \/ \E t \in Threads : GetDel(t)
    \/ \E t \in Threads, key \in OpKeys : RaceSetCall(t, key)
    \/ \E t \in Threads : SetSweepDel(t)
    \/ \E t \in Threads : SetEvict(t)
    \/ \E t \in Threads : SetStore(t)
    \/ \E t \in Threads : RaceFinish(t)
    \/ RaceTick

(***************************************************************************)
(* The default duration of set_cache, on keys spelled out in characters    *)
(***************************************************************************)
\* The first pieces of the keys the callers build: the configured prefixes,
\* the prefixes of the watchlist, search and calendar routes, and one that
\* is no prefix of the table.
FirstPieces ==
    { "index_overview", "market_radar", "fund_flow", "hot_concepts",
      "stock_diagnosis", "stock_list", "dashboard_all", "watchlist_quote_",
      "watchlist_trend_", "stock_search_", "economic_calendar_week_", "all_" }

\* What the callers append: a source name, a symbol.
Suffixes == { "_sina", "_eastmoney", "_tushare", "600519" }

\* The keys of the calls: a first piece alone, a first piece and a suffix,
\* and a key that holds a configured prefix in its middle.
ArgKeys ==
    {<<f>> : f \in FirstPieces}
        \cup {<<f, x>> : f \in FirstPieces, x \in Suffixes}
        \cup {<<"all_", "fund_flow">>}

\* The characters of a piece.
Chars(w) ==
    CASE w = "index_overview" -> <<"i", "n", "d", "e", "x", "_", "o", "v", "e", "r", "v", "i", "e", "w">>
      [] w = "market_radar" -> <<"m", "a", "r", "k", "e", "t", "_", "r", "a", "d", "a", "r">>
      [] w = "fund_flow" -> <<"f", "u", "n", "d", "_", "f", "l", "o", "w">>
      [] w = "hot_concepts" -> <<"h", "o", "t", "_", "c", "o", "n", "c", "e", "p", "t", "s">>
      [] w = "stock_diagnosis" -> <<"s", "t", "o", "c", "k", "_", "d", "i", "a", "g", "n", "o", "s", "i", "s">>
      [] w = "stock_list" -> <<"s", "t", "o", "c", "k", "_", "l", "i", "s", "t">>
      [] w = "dashboard_all" -> <<"d", "a", "s", "h", "b", "o", "a", "r", "d", "_", "a", "l", "l">>
      [] w = "watchlist_quote_" -> <<"w", "a", "t", "c", "h", "l", "i", "s", "t", "_", "q", "u", "o", "t", "e", "_">>
      [] w = "watchlist_trend_" -> <<"w", "a", "t", "c", "h", "l", "i", "s", "t", "_", "t", "r", "e", "n", "d", "_">>
      [] w = "stock_search_" -> <<"s", "t", "o", "c", "k", "_", "s", "e", "a", "r", "c", "h", "_">>
      [] w = "economic_calendar_week_" -> <<"e", "c", "o", "n", "o", "m", "i", "c", "_", "c", "a", "l", "e", "n", "d", "a", "r", "_", "w", "e", "e", "k", "_">>
      [] w = "all_" -> <<"a", "l", "l", "_">>
      [] w = "_sina" -> <<"_", "s", "i", "n", "a">>
      [] w = "_eastmoney" -> <<"_", "e", "a", "s", "t", "m", "o", "n", "e", "y">>
      [] w = "_tushare" -> <<"_", "t", "u", "s", "h", "a", "r", "e">>
      [] w = "600519" -> <<"6", "0", "0", "5", "1", "9">>

RECURSIVE KeyChars(_)
\* The characters of a key.
KeyChars(key) ==
    IF key = <<>> THEN <<>> ELSE Chars(Head(key)) \o KeyChars(Tail(key))

\* str.startswith on characters
StrStartsWith(a, b) == Len(b) <= Len(a) /\ SubSeq(a, 1, Len(b)) = b

\* duration_seconds is resolved: the first lines of set_cache.
ResolveTtl ==
    /\ resolved = <<>>
    /\ resolved' = <<ResolveDuration(arg_key, arg_ttl)>>
    /\ UNCHANGED <<arg_key, arg_ttl, notTtlVars>>

TtlInit ==
    /\ arg_key \in ArgKeys
    /\ arg_ttl \in TtlArgs \cup {<<120>>}
    /\ resolved = <<>>

TtlIdle ==
    /\ arg_key = <<>>
    /\ arg_ttl = <<>>
    /\ resolved = <<>>

TtlNext == ResolveTtl

(***************************************************************************)
(* The registry called by several threads (data_source.py)                 *)
(*                                                                         *)
(* get_data_source and set_data_source take no lock.  Worker threads run   *)
(* them statement by statement on the one file; every storage operation    *)
(* (exists, read, open for writing, write) is one step and none of them    *)
(* fails here.                                                             *)
(***************************************************************************)
\* Bound of this model: calls started in a run.
MaxPrefCalls == 3

\* The length of the source name inside the written record.
NameLen(source) ==
    CASE source = "eastmoney" -> 9
      [] source = "sina" -> 4
      [] source = "tushare" -> 7
      [] OTHER -> 5

\* The length of json.dump({"data_source": source}, f, indent=2).
RecordLen(source) == 23 + NameLen(source)

\* The file after a writer that opened it with "w" earlier writes its record
\* at offset 0: when another writer's longer record got there in between,
\* that record's tail stays behind the new one and the file is no JSON.
WriteAtStart(file, source) ==
    IF file \in ValidSet /\ RecordLen(file) > RecordLen(source)
    THEN "corrupt"
    ELSE source

\* The positions inside set_data_source.
SetRunning == {"set_check", "set_exists", "set_read", "set_open", "set_dump"}

Other(t) == CHOOSE u \in Threads : u # t

\* The preferences a call starting now may find: the persisted one, or,
\* while the other thread is writing, those that thread started from and
\* the one it writes.
Candidates(t) ==
    IF ppc[Other(t)] \in SetRunning
    THEN cands[Other(t)] \cup ({parg[Other(t)]} \cap ValidSet)
    ELSE {get_data_source(config_file)}

PrefGetCall(t) ==
    /\ ppc[t] = "idle"
    /\ pref_calls < MaxPrefCalls
    /\ ppc' = [ppc EXCEPT ![t] = "get_exists"]
    /\ parg' = [parg EXCEPT ![t] = "none"]
    /\ pret' = [pret EXCEPT ![t] = "pending"]
    /\ cands' = [cands EXCEPT ![t] = Candidates(t)]
    /\ pref_calls' = pref_calls + 1
    /\ UNCHANGED <<config_file, overlap, loaded, reloaded>>
    /\ UNCHANGED notPrefVars

\* if os.path.exists(CONFIG_FILE):
GetExists(t) ==
    /\ ppc[t] = "get_exists"
    /\ IF config_file = "absent"
       THEN /\ pret' = [pret EXCEPT ![t] = DEFAULT_DATA_SOURCE]
            /\ ppc' = [ppc EXCEPT ![t] = "done"]
       ELSE /\ ppc' = [ppc EXCEPT ![t] = "get_read"]
            /\ UNCHANGED pret
    /\ UNCHANGED <<config_file, parg, cands, overlap, loaded, reloaded, pref_calls>>
    /\ UNCHANGED notPrefVars

\* open, json.load, config.get, the membership test and the return; the
\* except clause and the final return when any of them fails.
GetRead(t) ==
    /\ ppc[t] = "get_read"
    /\ pret' = [pret EXCEPT ![t] = get_data_source(config_file)]
    /\ ppc' = [ppc EXCEPT ![t] = "done"]
    /\ loaded' = TRUE
    /\ reloaded' = (reloaded \/ loaded)
    /\ UNCHANGED <<config_file, parg, cands, overlap, pref_calls>>
    /\ UNCHANGED notPrefVars

PrefSetCall(t, source) ==
    /\ ppc[t] = "idle"
    /\ pref_calls < MaxPrefCalls
    /\ ppc' = [ppc EXCEPT ![t] = "set_check"]
    /\ parg' = [parg EXCEPT ![t] = source]
    /\ pret' = [pret EXCEPT ![t] = "pending"]
    /\ cands' = [u \in Threads |->
                   IF u = t THEN Candidates(t)
                   ELSE IF ppc[u] \in {"get_exists", "get_read"}
                        THEN cands[u] \cup ({source} \cap ValidSet)
                        ELSE cands[u]]
    /\ overlap' = (ppc[Other(t)] \in SetRunning)
    /\ pref_calls' = pref_calls + 1
    /\ UNCHANGED <<config_file, loaded, reloaded>>
    /\ UNCHANGED notPrefVars

\* if source not in VALID_DATA_SOURCES: return False
SetCheck(t) ==
    /\ ppc[t] = "set_check"
    /\ IF parg[t] \notin ValidSet
       THEN /\ pret' = [pret EXCEPT ![t] = "False"]
            /\ ppc' = [ppc EXCEPT ![t] = "done"]
       ELSE /\ ppc' = [ppc EXCEPT ![t] = "set_exists"]
            /\ UNCHANGED pret
    /\ UNCHANGED <<config_file, parg, cands, overlap, loaded, reloaded, pref_calls>>
    /\ UNCHANGED notPrefVars

\* config = {}; if os.path.exists(CONFIG_FILE):
SetExists(t) ==
    /\ ppc[t] = "set_exists"
    /\ ppc' = [ppc EXCEPT ![t] = IF config_file = "absent" THEN "set_open"
                                  ELSE "set_read"]
    /\ UNCHANGED <<config_file, parg, pret, cands, overlap, loaded, reloaded,
                   pref_calls>>
    /\ UNCHANGED notPrefVars

\* config = json.load(f); config["data_source"] = source.  A file that does
\* not parse sends the call to its except clause.
SetRead(t) ==
    /\ ppc[t] = "set_read"
    /\ IF config_file \in {"corrupt", "empty"}
       THEN /\ pret' = [pret EXCEPT ![t] = "False"]
            /\ ppc' = [ppc EXCEPT ![t] = "done"]
       ELSE /\ ppc' = [ppc EXCEPT ![t] = "set_open"]
            /\ UNCHANGED pret
    /\ UNCHANGED <<config_file, parg, cands, overlap, loaded, reloaded, pref_calls>>
    /\ UNCHANGED notPrefVars

\* open(CONFIG_FILE, "w") creates or truncates the file.
SetOpen(t) ==
    /\ ppc[t] = "set_open"
    /\ config_file' = "empty"
    /\ ppc' = [ppc EXCEPT ![t] = "set_dump"]
    /\ UNCHANGED <<parg, pret, cands, overlap, loaded, reloaded, pref_calls>>
    /\ UNCHANGED notPrefVars

\* json.dump(config, f, indent=2), written out when the with block closes
\* the file; return True.
SetDump(t) ==
    /\ ppc[t] = "set_dump"
    /\ config_file' = WriteAtStart(config_file, parg[t])
    /\ pret' = [pret EXCEPT ![t] = "True"]
    /\ ppc' = [ppc EXCEPT ![t] = "done"]
    /\ loaded' = FALSE
    /\ UNCHANGED <<parg, cands, overlap, reloaded, pref_calls>>
    /\ UNCHANGED notPrefVars

\* The caller takes the result.
PrefFinish(t) ==
    /\ ppc[t] = "done"
    /\ ppc' = [ppc EXCEPT ![t] = "idle"]
    /\ parg' = [parg EXCEPT ![t] = "none"]
    /\ pret' = [pret EXCEPT ![t] = "pending"]
    /\ cands' = [cands EXCEPT ![t] = {}]
    /\ overlap' = FALSE
    /\ UNCHANGED <<config_file, loaded, reloaded, pref_calls>>
    /\ UNCHANGED notPrefVars

\* The process has just started: no call runs, nothing was read yet.
PrefIdle ==
    /\ ppc = [t \in Threads |-> "idle"]
    /\ parg = [t \in Threads |-> "none"]
    /\ pret = [t \in Threads |-> "pending"]
    /\ cands = [t \in Threads |-> {}]
    /\ overlap = FALSE
    /\ loaded = FALSE
    /\ reloaded = FALSE
    /\ pref_calls = 0

PrefNext ==
    \/ \E t \in Threads : PrefGetCall(t)
    \/ \E t \in Threads : GetExists(t)
    \/ \E t \in Threads : GetRead(t)
    \/ \E t \in Threads, s \in ValidSet \cup {"bogus"} : PrefSetCall(t, s)
    \/ \E t \in Threads : SetCheck(t)
    \/ \E t \in Threads : SetExists(t)
    \/ \E t \in Threads : SetRead(t)
    \/ \E t \in Threads : SetOpen(t)
    \/ \E t \in Threads : SetDump(t)
    \/ \E t \in Threads : PrefFinish(t)

(***************************************************************************)
(* The accessors: cache lookup, fallback fetch, cache store                *)
(* (fund_flow.py, concepts.py, market.py, index_overview.py)               *)
(*                                                                         *)
(* Each accessor call is one step.  A provider is up or down for the whole *)
(* run and for every kind of data; the closures swallow their providers'   *)
(* errors (fetch_with_retry and tushare_client return None), except the    *)
(* index closures, which call the provider directly.  Writes of the        *)
(* preference succeed unless the record is corrupt.                        *)
(***************************************************************************)
\* Bound of this model: accessor calls in a run.
MaxAccCalls == 2

\* f"..._{current_source}"
Underscored(source) ==
    CASE source = "eastmoney" -> "_eastmoney"
      [] source = "sina" -> "_sina"
      [] source = "tushare" -> "_tushare"
      [] OTHER -> "_"

AccKey(name, source) == <<name, Underscored(source)>>

\* The closures of get_fund_flow_rank, get_hot_concepts and of the sectors
\* of get_market_radar_data: a list of rows, or None.
ListFuncs(p) == [s \in ValidSet |-> IF p[s] = "up" THEN "List" ELSE "None"]

\* The limit-up closures return (ladder, date), or (None, today) when no date
\* has a ladder; the sina closure is the eastmoney one.
LadderFuncs(p) ==
    [s \in ValidSet |->
        IF p[IF s = "sina" THEN "eastmoney" ELSE s] = "up"
        THEN "LadderTuple" ELSE "NoLadderTuple"]

\* The index closures return a DataFrame or raise.
IndexFuncs(p) == [s \in ValidSet |-> IF p[s] = "up" THEN "DataFrame" ELSE "Raise"]

RECURSIVE FallbackFrom(_, _, _, _, _)
\* The for loop of fetch_with_fallback from position i on: the result, the
\* source it came from, the record afterwards and the closures invoked.
FallbackFrom(i, sources, ff, cur, file) ==
    IF i > Len(sources)
    THEN [data |-> NoData, source |-> "None", file |-> file, calls |-> <<>>]
    ELSE LET source == sources[i]
         IN  IF source \notin DOMAIN ff
             THEN FallbackFrom(i + 1, sources, ff, cur, file)
             ELSE IF ff[source] # "Raise" /\ DataIsValid(ff[source])
             THEN [data |-> Payload(source, ff[source]), source |-> source,
                   file |-> IF Promotes(source, cur)
                            THEN set_data_source(file, source, "ok").file
                            ELSE file,
                   calls |-> <<source>>]
             ELSE LET r == FallbackFrom(i + 1, sources, ff, cur, file)
                  IN  [r EXCEPT !.calls = <<source>> \o r.calls]

\* fetch_with_fallback(fetch_funcs) as one call on the record file.
fetch_with_fallback(file, ff) ==
    FallbackFrom(1, BuildSources(get_data_source(file), ff), ff,
                 get_data_source(file), file)

\* get_cache(key) at time t: the data (<<>>: None) and the store afterwards.
get_cache(cache, key, t) ==
    IF key \notin Keys(cache)
    THEN [data |-> NoneResult, cache |-> cache]
    ELSE IF IsExpired(Entry(cache, key), t)
    THEN [data |-> NoneResult, cache |-> DictDel(cache, {key})]
    ELSE [data |-> <<Entry(cache, key).data>>, cache |-> cache]

\* set_cache(key, data, duration_seconds) at time t: the store and the call
\* counter afterwards.
set_cache(cache, count, key, data, duration_seconds, t) ==
    LET effective == _get_effective_duration(key, duration_seconds, t)
        swept == IF SweepDue(count + 1) THEN ExpiredKeys(cache, t) ELSE {}
        c1 == DictDel(cache, swept)
        c2 == DictDel(c1, IF AtCapacity(c1) THEN {OldestKey(c1)} ELSE {})
    IN  [cache |-> DictSet(c2, [key |-> key, data |-> data,
                                expires_at |-> t + effective, created_at |-> t]),
         count |-> count + 1]

\* What an accessor returns and caches: the source it names, whether it
\* carries rows (sectors, for the radar) and whether it carries a ladder.
Result(source, rows, ladder) == [data_source |-> source, rows |-> rows, ladder |-> ladder]

NoAcc ==
    [name |-> "none", n |-> 0, at |-> 0, pref |-> "none", key |-> <<>>,
     hit |-> FALSE, calls |-> <<>>, ladder_calls |-> <<>>,
     source_used |-> "None", ladder_source |-> "None",
     ret |-> Result("none", FALSE, FALSE), ttl |-> 0]

\* The call found its key in the cache.
AccHit(name, cur, key, g) ==
    /\ acc_log' = [NoAcc EXCEPT !.name = name, !.n = acc_calls + 1, !.at = clock,
                            !.pref = cur, !.key = key, !.hit = TRUE,
                            !.ret = g.data[1]]
    /\ _CACHE' = g.cache
    /\ UNCHANGED <<config_file, _set_count>>

\* The call fetched: f is its (first) fetch_with_fallback, file the record
\* afterwards, data what it returns, stored under key for ttl seconds.
AccMiss(name, cur, key, g, f, lf, file, data, ttl) ==
    /\ acc_log' = [NoAcc EXCEPT !.name = name, !.n = acc_calls + 1, !.at = clock,
                            !.pref = cur, !.key = key,
                            !.calls = f.calls, !.ladder_calls = lf.calls,
                            !.source_used = f.source, !.ladder_source = lf.source,
                            !.ret = data, !.ttl = ttl]
    /\ LET s == set_cache(g.cache, _set_count, key, data, ttl, clock)
       IN  _CACHE' = s.cache /\ _set_count' = s.count
    /\ config_file' = file

\* A fetch_with_fallback that was not made.
NoFallback(file) == [data |-> NoData, source |-> "None", file |-> file, calls |-> <<>>]

\* get_fund_flow_rank(); the legacy method asks Eastmoney again and yields
\* nothing when the eastmoney closure did not.
GetFundFlowRank ==
    /\ acc_calls < MaxAccCalls
    /\ acc_calls' = acc_calls + 1
    /\ LET cur == get_data_source(config_file)
           key == AccKey("fund_flow", cur)
           g == get_cache(_CACHE, key, clock)
           f == fetch_with_fallback(config_file, ListFuncs(providers))
       IN  IF g.data # NoneResult
           THEN AccHit("fund_flow", cur, key, g)
           ELSE IF f.data.kind = "List"
           THEN AccMiss("fund_flow", cur, key, g, f, NoFallback(f.file), f.file,
                        Result(f.source, TRUE, FALSE), 1800)
           ELSE AccMiss("fund_flow", cur, key, g, f, NoFallback(f.file), f.file,
                        Result("error", FALSE, FALSE), 120)
    /\ UNCHANGED <<clock, providers, report>>
    /\ UNCHANGED notAccVars

\* get_hot_concepts()
GetHotConcepts ==
    /\ acc_calls < MaxAccCalls
    /\ acc_calls' = acc_calls + 1
    /\ LET cur == get_data_source(config_file)
           key == AccKey("hot_concepts", cur)
           g == get_cache(_CACHE, key, clock)
           f == fetch_with_fallback(config_file, ListFuncs(providers))
       IN  IF g.data # NoneResult
           THEN AccHit("hot_concepts", cur, key, g)
           ELSE IF f.data.kind = "List"
           THEN AccMiss("hot_concepts", cur, key, g, f, NoFallback(f.file), f.file,
                        Result(f.source, TRUE, FALSE), 1800)
           ELSE AccMiss("hot_concepts", cur, key, g, f, NoFallback(f.file), f.file,
                        Result("error", FALSE, FALSE), 120)
    /\ UNCHANGED <<clock, providers, report>>
    /\ UNCHANGED notAccVars

\* get_market_radar_data(): the sectors by fallback, the ladder from the
\* daily report or else by a second fallback.
GetMarketRadar ==
    /\ acc_calls < MaxAccCalls
    /\ acc_calls' = acc_calls + 1
    /\ LET cur == get_data_source(config_file)
           key == AccKey("market_radar", cur)
           g == get_cache(_CACHE, key, clock)
           f == fetch_with_fallback(config_file, ListFuncs(providers))
           lf == IF report THEN NoFallback(f.file)
                 ELSE fetch_with_fallback(f.file, LadderFuncs(providers))
           sectors == f.data.kind = "List"
           ladder == report \/ lf.data.kind = "LadderTuple"
           actual_source ==
               IF f.source # "None" THEN f.source
               ELSE IF report THEN "daily_report"
               ELSE IF lf.data.kind # "None" /\ lf.source # "None" THEN lf.source
               ELSE cur
       IN  IF g.data # NoneResult
           THEN AccHit("market_radar", cur, key, g)
           ELSE AccMiss("market_radar", cur, key, g, f, lf, lf.file,
                        Result(actual_source, sectors, ladder),
                        IF sectors \/ ladder THEN 600 ELSE 120)
    /\ UNCHANGED <<clock, providers, report>>
    /\ UNCHANGED notAccVars

\* get_index_overview(): the four indexes are fetched alike (one
\* fetch_with_fallback stands for the four); a result is stored under the
\* key of the source that delivered.
GetIndexOverview ==
    /\ acc_calls < MaxAccCalls
    /\ acc_calls' = acc_calls + 1
    /\ LET cur == get_data_source(config_file)
           key == AccKey("index_overview", cur)
           g == get_cache(_CACHE, key, clock)
           f == fetch_with_fallback(config_file, IndexFuncs(providers))
       IN  IF g.data # NoneResult
           THEN AccHit("index_overview", cur, key, g)
           ELSE IF f.data.kind = "DataFrame"
           THEN AccMiss("index_overview", cur, AccKey("index_overview", f.source),
                        g, f, NoFallback(f.file), f.file,
                        Result(f.source, TRUE, FALSE), 600)
           ELSE AccMiss("index_overview", cur, key, g, f, NoFallback(f.file), f.file,
                        Result("none", FALSE, FALSE), 120)
    /\ UNCHANGED <<clock, providers, report>>
    /\ UNCHANGED notAccVars

\* 10:30 on Monday 2026-01-05 and on Saturday 2026-01-10.
AccStartTimes == { 7 * 86400 + TimeOfDay(10, 30), 12 * 86400 + TimeOfDay(10, 30) }

AccInit ==
    /\ clock \in AccStartTimes
    /\ _CACHE = <<>>
    /\ _set_count = 0
    /\ op = NoOp
    /\ last_set = [k \in OpKeys |-> NotSet]
    /\ sets_done = 0
    /\ ticks_done = 0
    /\ providers \in [ValidSet -> {"up", "down"}]
    /\ report \in BOOLEAN
    /\ acc_log = NoAcc
    /\ acc_calls = 0

AccIdle ==
    /\ providers = [s \in ValidSet |-> "up"]
    /\ report = FALSE
    /\ acc_log = NoAcc
    /\ acc_calls = 0

AccNext ==
    \/ GetFundFlowRank
    \/ GetHotConcepts
    \/ GetMarketRadar
    \/ GetIndexOverview
    \/ CacheTick

(***************************************************************************)
(* Properties of the registry and the orchestrator (under Spec)            *)
(***************************************************************************)
\* What the contract calls a failed source and a valid payload.
RejectedKinds == {"None", "EmptyDataFrame", "EmptyList", "Raise"}

AcceptedKinds == {"DataFrame", "List"}

\* The contract's attempt order: the preference, then the other registered
\* sources in canonical order, restricted to the keys of ff.
PriorityOrder(pref, ff) ==
    SelectSeq(<<pref>> \o SelectSeq(VALID_DATA_SOURCES, LAMBDA s : s # pref),
              LAMBDA s : s \in DOMAIN ff)

IsPrefix(s, t) == Len(s) <= Len(t) /\ SubSeq(t, 1, Len(s)) = s

\* The preference that was current when the running call started.
PrefAtStart == get_data_source(file_at_start)

\* The case of C1: the call is over, the preference A was offered and
\* failed, and the next offered source B delivered.
FallbackCase ==
    /\ pc = "done"
    /\ PrefAtStart \in DOMAIN fetch_funcs
    /\ fetch_funcs[PrefAtStart] \in RejectedKinds
    /\ Len(PriorityOrder(PrefAtStart, fetch_funcs)) >= 2
    /\ fetch_funcs[PriorityOrder(PrefAtStart, fetch_funcs)[2]] \in AcceptedKinds

FallbackSource == PriorityOrder(PrefAtStart, fetch_funcs)[2]

FallbackReturned ==
    /\ ret = <<Payload(FallbackSource, fetch_funcs[FallbackSource]), FallbackSource>>
    /\ calls = <<PrefAtStart, FallbackSource>>

C2_AttemptOrder ==
    pc \in {"loop", "done"} =>
        /\ IsPrefix(calls, PriorityOrder(PrefAtStart, fetch_funcs))
        /\ \A i, j \in 1..Len(calls) : calls[i] = calls[j] => i = j
        /\ \A i \in 1..(Len(calls) - 1) : fetch_funcs[calls[i]] \in RejectedKinds
        /\ pc = "loop" =>
             \A i \in 1..Len(calls) : fetch_funcs[calls[i]] \in RejectedKinds

C2_Witness ==
    /\ pc = "done"
    /\ file_at_start = "tushare"
    /\ calls = <<"tushare", "eastmoney", "sina">>
    /\ "yahoo" \in DOMAIN fetch_funcs
    /\ ret[2] = "sina"

\* C3: when every closure of fetch_funcs returns None/empty or raises (also
\* when fetch_funcs is empty, and then nothing is invoked), the call returns
\* (None, None), no exception ends the loop early (every offered source was
\* tried), and the persisted preference is as it was.
C3_Exhaustion ==
    (pc = "done" /\ \A s \in DOMAIN fetch_funcs : fetch_funcs[s] \in RejectedKinds)
        => /\ ret = <<NoData, "None">>
           /\ calls = PriorityOrder(PrefAtStart, fetch_funcs)
           /\ DOMAIN fetch_funcs = {} => calls = <<>>
           /\ set_result = "not_called"
           /\ config_file = file_at_start

C3_Witness ==
    /\ pc = "done"
    /\ DOMAIN fetch_funcs = ValidSet
    /\ fetch_funcs["eastmoney"] = "Raise"
    /\ fetch_funcs["sina"] = "None"
    /\ fetch_funcs["tushare"] = "EmptyDataFrame"
    /\ Len(calls) = 3
    /\ ret = <<NoData, "None">>

\* A step in which fetch_with_fallback invokes a closure.
InvokeStep == Len(calls') = Len(calls) + 1

\* C13: a closure result that is None or an empty tabular result is rejected
\* exactly like a failed source (no result, no promotion, the loop goes on
\* with the next source); any other non-empty value is accepted and
\* returned with its source.
C13_PayloadValidation ==
    [][InvokeStep =>
          LET source == calls'[Len(calls')]
              kind == fetch_funcs[source]
          IN  /\ kind \in {"None", "EmptyDataFrame"} =>
                     /\ pc' = "loop" /\ idx' = idx + 1
                     /\ ret' = <<NoData, "None">>
                     /\ config_file' = config_file
                     /\ set_result' = "not_called"
              /\ kind \in {"DataFrame", "List"} =>
                     /\ pc' = "done"
                     /\ ret' = <<Payload(source, kind), source>>]_vars

\* The preferred source returned an empty table, the next one a non-empty
\* list, which was returned.
C13_Witness ==
    /\ pc = "done"
    /\ Len(calls) = 2
    /\ calls[1] = current_source
    /\ fetch_funcs[calls[1]] = "EmptyDataFrame"
    /\ fetch_funcs[calls[2]] = "List"
    /\ ret = <<Payload(calls[2], "List"), calls[2]>>

\* C14 as stated: when the preference has no closure in fetch_funcs, the call
\* invokes nothing for it, and the persisted preference is the same after
\* the call, whichever other source succeeded.
C14_Original ==
    (pc = "done" /\ PrefAtStart \notin DOMAIN fetch_funcs) =>
        /\ \A i \in 1..Len(calls) : calls[i] # PrefAtStart
        /\ get_data_source(config_file) = PrefAtStart

\* The half of C14 the code keeps: nothing is invoked for a source that has
\* no closure.  (Not a claim.)
AbsentNeverInvoked == \A i \in 1..Len(calls) : calls[i] \in DOMAIN fetch_funcs

\* C20: get_data_source never raises and always returns a member of
\* VALID_DATA_SOURCES: the persisted preference when the record exists, is
\* readable and holds a valid name, 'eastmoney' when the record is absent,
\* corrupt, unreadable or holds an invalid name.
C20_GetDataSource ==
    /\ get_data_source(config_file) \in ValidSet
    /\ pc # "idle" =>
           /\ current_source \in ValidSet
           /\ file_at_start \in {"eastmoney", "sina", "tushare"} =>
                  current_source = file_at_start
           /\ file_at_start \in {"absent", "corrupt", "nokey", "bogus"} =>
                  current_source = "eastmoney"

\* A call started on a corrupt record and took 'eastmoney' as preference.
C20_Witness ==
    /\ pc = "loop"
    /\ file_at_start = "corrupt"
    /\ current_source = "eastmoney"

\* A step in which set_data_source is called, directly or for a promotion.
SetSourceStep == set_result' # "not_called"

\* C21 as stated: set_data_source(s) never raises; it returns False and
\* leaves the persisted preference as it was when s is no registered source
\* or when storage access fails; it returns True only when s was persisted,
\* and then get_data_source() called next returns s.
C21_Original ==
    [][SetSourceStep =>
          /\ set_result' \in {"True", "False"}
          /\ set_arg' \notin ValidSet => set_result' = "False"
          /\ set_result' = "False" =>
                 get_data_source(config_file') = get_data_source(config_file)
          /\ set_result' = "True" =>
                 get_data_source(config_file') = set_arg']_vars

\* The half of C21 the code keeps: True is returned only for a persisted
\* registered source, which get_data_source() then returns.  (Not a claim.)
TrueMeansPersisted ==
    [][(SetSourceStep /\ set_result' = "True") =>
          /\ set_arg' \in ValidSet
          /\ config_file' = set_arg'
          /\ get_data_source(config_file') = set_arg']_vars

\* How often the call has invoked the closure of source s.
Invocations(s) == Cardinality({i \in 1..Len(calls) : calls[i] = s})

\* The loop is done with source s.
MovedPast(s) ==
    \E i \in 1..Len(sources_to_try) : sources_to_try[i] = s /\ (idx > i \/ pc = "done")

\* A closure of kind "Raise" raises any Exception; a refused connection,
\* which the retry client classifies as transient, is one of them.
ClosureError == Raises(TransientMessage)

\* C12 as stated: every closure invocation of fetch_with_fallback goes
\* through the retry client, so it comes after a pass through the global
\* rate limiter (which stamps _last_request_time), and a closure raising a
\* transient error is invoked again before the next source is tried.
C12_Original ==
    /\ calls # <<>> => _last_request_time # 0
    /\ \A s \in DOMAIN fetch_funcs :
           (/\ fetch_funcs[s] = "Raise"
            /\ is_retryable(ClosureError.msg)
            /\ Invocations(s) >= 1
            /\ MovedPast(s)) => Invocations(s) >= 2

\* What fetch_with_fallback does: it invokes each closure directly, once at
\* most, and never passes through the rate limiter.  (Not a claim.)
DirectInvocation ==
    /\ \A s \in SourceNames : Invocations(s) <= 1
    /\ _last_request_time = 0
    /\ \A t \in Threads : rpc[t] = "idle"

(***************************************************************************)
(* Properties of the retry client (under RetrySpec)                        *)
(***************************************************************************)
\* C4: a function that raises a transient error on exactly its first
\* k < max_retries invocations and then succeeds makes fetch_with_retry
\* return its value after exactly k + 1 invocations; one that always raises
\* a transient error makes it return None after exactly max_retries + 1.
C4_RetryCount ==
    \A t \in Threads :
        rpc[t] = "returned" =>
            /\ (func[t].then = Ok /\ func[t].fails < max_retries[t]) =>
                   (rret[t] = "data" /\ calls_made[t] = func[t].fails + 1)
            /\ func[t].fails > max_retries[t] =>
                   (rret[t] = "None" /\ calls_made[t] = max_retries[t] + 1)

C4_Witness ==
    \E t \in Threads :
        /\ rpc[t] = "returned" /\ max_retries[t] = 2 /\ func[t].fails = 1
        /\ func[t].then = Ok /\ rret[t] = "data" /\ calls_made[t] = 2
        /\ calls_started = 2 /\ now >= wait_time(0) + wait_time(1)

\* C5 as stated: whatever the threads do, the start times of two
\* consecutive invocations of wrapped functions are at least
\* _MIN_REQUEST_INTERVAL apart.
C5_Original == min_gap = -1 \/ min_gap >= _MIN_REQUEST_INTERVAL

\* What the limiter does keep apart: the times it stamps when it admits a
\* call.  (Not a claim; it shows what _rate_lock protects.)
AdmissionsSpaced ==
    [][_last_request_time' # _last_request_time =>
           _last_request_time' - _last_request_time >= _MIN_REQUEST_INTERVAL]_vars

\* The first invocation of thread t's call raised an error that is not
\* transient.
FirstErrorFatal(t) ==
    /\ calls_made[t] >= 1
    /\ FuncOutcome(func[t], 1).raises
    /\ ~is_retryable(FuncOutcome(func[t], 1).msg)

\* C11: when the wrapped function raises an error whose lower-cased message
\* contains none of the retryable substrings, fetch_with_retry returns None
\* after exactly one invocation and without any backoff sleep, whatever
\* max_retries is.
C11_NonTransientNotRetried ==
    \A t \in Threads :
        FirstErrorFatal(t) =>
            /\ rpc[t] = "returned"
            /\ rret[t] = "None"
            /\ calls_made[t] = 1
            /\ attempt[t] = 0
            /\ wake[t] = 0

\* A call with two retries left has returned None after one invocation
\* that raised "Invalid JSON".
C11_Witness ==
    \E t \in Threads :
        /\ FirstErrorFatal(t)
        /\ max_retries[t] = MaxRetries
        /\ FuncOutcome(func[t], 1) = Raises(FatalMessage)
        /\ rpc[t] = "returned" /\ rret[t] = "None" /\ calls_made[t] = 1

\* C10: no exception of the wrapped function leaves fetch_with_retry; every
\* call that ends after a failing invocation returns None.
C10_NeverRaises ==
    \A t \in Threads :
        /\ rpc[t] # "raised"
        /\ (rpc[t] = "returned" /\ FuncOutcome(func[t], calls_made[t]).raises)
               => rret[t] = "None"

C10_Witness ==
    \E t \in Threads :
        /\ rpc[t] = "returned" /\ max_retries[t] = 2 /\ calls_made[t] = 2
        /\ FuncOutcome(func[t], 1) = Raises(TransientMessage)
        /\ FuncOutcome(func[t], 2) = Raises(FatalMessage)
        /\ rret[t] = "None"

(***************************************************************************)
(* Properties of fetch_concurrent (under ConcSpec)                         *)
(***************************************************************************)
\* The returned list has one result per task, in the order of the tasks,
\* None standing for a failed task.  (The half of C26 the code keeps; not a
\* claim.)
ResultsInTaskOrder ==
    cpc = "returned" =>
        /\ Len(cresults) = Len(ctasks)
        /\ \A i \in 1..Len(ctasks) :
              cresults[i] = IF ctasks[i] = "ok" THEN <<i>> ELSE <<>>

\* C26 as stated: never more than max_concurrent task functions run at the
\* same time, and the returned list has one result per task in the order of
\* the tasks, None for each failed task.
C26_Original ==
    /\ peak <= cmax
    /\ ResultsInTaskOrder

(***************************************************************************)
(* Properties of the cache store (under CacheSpec)                         *)
(***************************************************************************)
\* The prefixes whose entries live longer outside trading hours.
Whitelist == {"index_overview", "market_radar", "dashboard_all"}

Whitelisted(key) == \E prefix \in Whitelist : StartsWith(key, prefix)

\* The ttl a call asked for: the argument, or the default of the key.
RequestedTtl(key, ttl) == ResolveDuration(key, ttl)

\* The lifetime of an entry stored at time t.
Lifetime(key, ttl, t) ==
    IF Whitelisted(key) /\ ~_is_a_share_trading_hours(t)
    THEN IF RequestedTtl(key, ttl) >= 3600 THEN RequestedTtl(key, ttl) ELSE 3600
    ELSE RequestedTtl(key, ttl)

\* The latest call was get_cache of a key set earlier and not cleared since.
GetOfSetKey == op.name = "get" /\ last_set[op.key].live

\* C6 as stated: a get before t + ttl returns the value, a get after t + ttl
\* returns None, where ttl is the one the set_cache call asked for.
C6_Original ==
    GetOfSetKey =>
        LET ls == last_set[op.key]
            ttl == RequestedTtl(op.key, ls.ttl)
        IN  /\ op.at < ls.at + ttl => op.result = <<ls.data>>
            /\ op.at > ls.at + ttl => op.result = NoneResult

\* C6 (TTL correctness, amended): after set_cache(key, value, ttl) at time t
\* with no later set or clear of the key, and with e the lifetime the entry
\* was stored with (max(ttl, 3600) for a whitelisted key set outside trading
\* hours, ttl otherwise), get_cache(key) returns None at every time after
\* t + e; at every time before t + e it returns value, unless a later
\* set_cache evicted the entry for capacity, and then it returns None.
C6_TtlCorrectness ==
    GetOfSetKey =>
        LET ls == last_set[op.key]
            e == Lifetime(op.key, ls.ttl, ls.at)
        IN  /\ op.at > ls.at + e => op.result = NoneResult
            /\ op.at < ls.at + e /\ ~ls.evicted => op.result = <<ls.data>>
            /\ op.at < ls.at + e /\ ls.evicted => op.result = NoneResult

\* A whitelisted key set outside trading hours is read after the requested
\* ttl and before the end of its lifetime, and the value comes back.
C6_Witness ==
    /\ GetOfSetKey
    /\ Whitelisted(op.key)
    /\ op.at > last_set[op.key].at + RequestedTtl(op.key, last_set[op.key].ttl)
    /\ op.at < last_set[op.key].at + 3600
    /\ op.result = <<last_set[op.key].data>>

\* C7 (non-trading extension): the entry set_cache has just stored lives
\* max(requested ttl, 3600 s) if its key starts with a whitelisted prefix and
\* the calendar reports not-trading, and exactly the requested (or default)
\* ttl otherwise.
C7_NonTradingExtension ==
    op.name = "set" =>
        /\ op.key \in Keys(_CACHE)
        /\ LET e == Entry(_CACHE, op.key)
           IN  /\ e.created_at = op.at
               /\ e.expires_at - e.created_at = Lifetime(op.key, op.ttl, op.at)

\* A whitelisted key set with its default ttl on a day without trading is
\* stored for an hour.
C7_Witness ==
    /\ op.name = "set"
    /\ Whitelisted(op.key)
    /\ ~_is_a_share_trading_hours(op.at)
    /\ op.ttl = <<>>
    /\ Entry(_CACHE, op.key).expires_at - Entry(_CACHE, op.key).created_at = 3600

\* A step that is a set_cache call.
SetStep == sets_done' = sets_done + 1

CreatedAt(cache, k) == Entry(cache, k).created_at

\* k is an entry of ks with the oldest created_at.
IsOldestOf(cache, ks, k) ==
    k \in ks /\ \A j \in ks : CreatedAt(cache, k) <= CreatedAt(cache, j)

\* The entries a set_cache call deleted.
Deleted(o) == o.swept \cup o.evicted

\* C8 as stated: a set_cache call on a store holding MAX_CACHE_SIZE entries
\* removes exactly one entry, and it is the one with the oldest created_at.
C8_Original ==
    [][(SetStep /\ Len(_CACHE) = MAX_CACHE_SIZE) =>
          \E k \in Keys(_CACHE) :
              /\ Deleted(op') = {k}
              /\ IsOldestOf(_CACHE, Keys(_CACHE), k)]_vars

\* C8 (capacity eviction, amended): when the store still holds MAX_CACHE_SIZE
\* entries after the sweep of a set_cache call (run on every 10th call, and
\* deleting expired entries only), the call removes exactly one more entry,
\* the one with the oldest created_at among those left; when it holds fewer,
\* the call removes no more entry.
C8_CapacityEviction ==
    [][SetStep =>
          LET left == Keys(_CACHE) \ op'.swept
          IN  /\ \A k \in op'.swept : k \in Keys(_CACHE) /\ clock > Entry(_CACHE, k).expires_at
              /\ Cardinality(left) >= MAX_CACHE_SIZE =>
                     \E k \in left : /\ op'.evicted = {k}
                                     /\ IsOldestOf(_CACHE, left, k)
              /\ Cardinality(left) < MAX_CACHE_SIZE => op'.evicted = {}
              /\ Keys(_CACHE') = (left \ op'.evicted) \cup {op'.key}]_vars

\* A new key was set in the full store: the oldest entry made room for it.
C8_Witness ==
    /\ op.name = "set"
    /\ op.key = <<"index_overview", "_sina">>
    /\ op.swept = {}
    /\ op.evicted = {<<"watchlist_quote_", "2">>}
    /\ Len(_CACHE) = MAX_CACHE_SIZE
    /\ <<"watchlist_quote_", "2">> \notin Keys(_CACHE)

\* The call's number, counted over all keys since start, is a multiple of 10.
TenthCall(n) == n % 10 = 0

\* The entries of the store that are expired at time t.
ExpiredAt(cache, t) == {k \in Keys(cache) : t > Entry(cache, k).expires_at}

\* get_cache_stats right after a 10th set_cache call reports no expired entry.
StatsAfterSweep ==
    (op.name = "set" /\ TenthCall(_set_count) /\ op.at = clock /\ op'.name = "stats")
        => op'.result = <<0>>

\* Every 10th set_cache call deletes every entry expired at that moment.
SweepOnTenth ==
    (SetStep /\ TenthCall(_set_count')) =>
        /\ ExpiredAt(_CACHE, clock) \ {op'.key} \subseteq op'.swept
        /\ ExpiredAt(_CACHE', clock) = {}

\* C9 as stated: the sweep on every 10th call, and no expired entry deleted
\* by any other call.
C9_Original ==
    [][/\ SweepOnTenth
       /\ StatsAfterSweep
       /\ (SetStep /\ ~TenthCall(_set_count')) =>
              ExpiredAt(_CACHE, clock) \subseteq Keys(_CACHE')]_vars

\* C9 (lazy sweep, amended): on every 10th set_cache call, counted over all
\* keys since start, every entry expired at that moment is deleted whatever
\* its key, and get_cache_stats right after the call reports no expired
\* entry; a call whose count is not a multiple of 10 runs no sweep, and the
\* only entry it can delete is the oldest one, evicted when the store holds
\* MAX_CACHE_SIZE entries, expired or not.
C9_LazySweep ==
    [][/\ SweepOnTenth
       /\ StatsAfterSweep
       /\ (SetStep /\ ~TenthCall(_set_count')) =>
              /\ op'.swept = {}
              /\ Keys(_CACHE) \ Keys(_CACHE') \subseteq op'.evicted
              /\ \A k \in op'.evicted :
                     /\ Len(_CACHE) >= MAX_CACHE_SIZE
                     /\ IsOldestOf(_CACHE, Keys(_CACHE), k)]_vars

\* A 10th call found expired entries of other keys and deleted them.
C9_Witness ==
    /\ op.name = "set"
    /\ TenthCall(_set_count)
    /\ op.swept \ {op.key} # {}
    /\ ExpiredAt(_CACHE, op.at) = {}

\* A step that is a get_cache call.
GetStep == op'.name = "get" /\ op' # op

\* The entries of the store other than the one of key k, in dict order.
Others(cache, k) == SelectSeq(cache, LAMBDA e : e.key # k)

\* C15: get_cache(key) returns None when the key is absent or its entry is
\* expired (now > expires_at); in the expired case the entry is deleted; in
\* every case all other entries are left as they were.
C15_GetCache ==
    [][GetStep =>
          LET k == op'.key
          IN  /\ k \notin Keys(_CACHE) =>
                     op'.result = NoneResult /\ _CACHE' = _CACHE
              /\ (k \in Keys(_CACHE) /\ clock > Entry(_CACHE, k).expires_at) =>
                     op'.result = NoneResult /\ k \notin Keys(_CACHE')
              /\ Others(_CACHE', k) = Others(_CACHE, k)]_vars

\* The 109th set_cache stored a key in the full store, its entry expired,
\* and get_cache of the key returned None and deleted it, leaving the 99
\* other entries.
C15_Witness ==
    /\ op.name = "get"
    /\ op.result = NoneResult
    /\ last_set[op.key].live /\ ~last_set[op.key].evicted
    /\ last_set[op.key].data = MAX_CACHE_SIZE + 9
    /\ _set_count = MAX_CACHE_SIZE + 9
    /\ op.key \notin Keys(_CACHE)
    /\ Len(_CACHE) = MAX_CACHE_SIZE - 1

\* C17: in every state reachable by set_cache, get_cache and clear_cache
\* calls the store holds at most MAX_CACHE_SIZE entries.
C17_SizeBound == Len(_CACHE) <= MAX_CACHE_SIZE

\* Two new keys were set one after the other in the full store, and the
\* store is full again.
C17_Witness ==
    /\ Len(_CACHE) = MAX_CACHE_SIZE
    /\ op.name = "set"
    /\ op.evicted # {}
    /\ sets_done = 2
    /\ \A k \in OpKeys : k \in Keys(_CACHE) /\ last_set[k].data > MAX_CACHE_SIZE

\* A step that is a clear_cache call.
ClearStep == op'.name = "clear" /\ op' # op

\* The call's prefix (<<>> for None) matches key k.
Cleared(p, k) == p = <<>> \/ (Len(p) <= Len(k) /\ SubSeq(k, 1, Len(p)) = p)

\* C18: clear_cache(prefix) removes exactly the entries whose key starts
\* with prefix (every entry when prefix is None), leaves all other entries
\* unchanged, and returns the number of entries it removed.
C18_ClearCache ==
    [][ClearStep =>
          /\ _CACHE' = SelectSeq(_CACHE, LAMBDA e : ~Cleared(op'.key, e.key))
          /\ op'.result = <<Len(_CACHE) - Len(_CACHE')>>]_vars

\* clear_cache("index_overview") removed the one entry of that prefix from
\* the full store and returned 1.
C18_Witness ==
    /\ op.name = "clear"
    /\ op.key = <<"index_overview">>
    /\ op.result = <<1>>
    /\ Len(_CACHE) = MAX_CACHE_SIZE - 1
    /\ <<"index_overview", "_sina">> \notin Keys(_CACHE)

(***************************************************************************)
(* Properties of the stored entries (under EntrySpec)                      *)
(***************************************************************************)
\* C23 as stated: every entry of the store has expires_at > created_at,
\* whatever key and duration set_cache was called with.
C23_Original ==
    \A i \in 1..Len(_CACHE) : _CACHE[i].expires_at > _CACHE[i].created_at

\* What holds of the entries set with a duration of a second or more, or
\* with none.  (Not a claim.)
PositiveTtlOutlivesCreation ==
    \A k \in OpKeys :
        (last_set[k].live /\ k \in Keys(_CACHE)
           /\ (last_set[k].ttl = <<>> \/ last_set[k].ttl[1] >= 1))
        => Entry(_CACHE, k).expires_at > Entry(_CACHE, k).created_at

(***************************************************************************)
(* Properties of the trading calendar (under CalSpec)                      *)
(***************************************************************************)
\* The dates of the static holiday set, as <<month, day>> of 2026.
HolidayDates ==
    { <<1, 1>>, <<1, 2>>, <<1, 3>>,
      <<2, 15>>, <<2, 16>>, <<2, 17>>, <<2, 18>>, <<2, 19>>, <<2, 20>>, <<2, 21>>,
      <<4, 4>>, <<4, 5>>, <<4, 6>>,
      <<5, 1>>, <<5, 2>>, <<5, 3>>, <<5, 4>>, <<5, 5>>,
      <<5, 31>>, <<6, 1>>, <<6, 2>>,
      <<10, 1>>, <<10, 2>>, <<10, 3>>, <<10, 4>>, <<10, 5>>, <<10, 6>>,
      <<10, 7>>, <<10, 8>> }

\* The days of 2026 before the first of each month.
DaysBeforeMonth == <<0, 31, 59, 90, 120, 151, 181, 212, 243, 273, 304, 334>>

\* The number of the day <<month, day>> of 2026, Mon 2025-12-29 being day 0.
DayNumber(md) == DaysBeforeMonth[md[1]] + md[2] + 2

\* The Beijing-time instant of the call: UTC+8.
CalBeijing == cal_utc + 8 * 3600

\* The Beijing-time instant is in a session of a trading day.
TradingInstant ==
    LET day == CalBeijing \div 86400
        tod == CalBeijing % 86400
    IN  /\ day % 7 \in 0..4
        /\ ~ \E md \in HolidayDates : DayNumber(md) = day
        /\ \/ TimeOfDay(9, 25) <= tod /\ tod <= TimeOfDay(11, 30)
           \/ TimeOfDay(13, 0) <= tod /\ tod <= TimeOfDay(15, 0)

C25_Original ==
    (cal_tz = "fixed_offset" /\ cal_ret # "pending") => cal_ret = "True"

(***************************************************************************)
(* Properties of the accessors (under AccSpec)                             *)
(***************************************************************************)
\* A step in which the accessor of the latest call is called again.
SameAccessorAgain ==
    /\ acc_log'.n = acc_log.n + 1
    /\ acc_log'.name = acc_log.name

\* The call a obtained rows through fetch_with_fallback and cached them.
FetchedAndCached(a) ==
    /\ a.name \in {"fund_flow", "hot_concepts"}
    /\ ~a.hit
    /\ a.source_used # "None"

\* C27 as stated: after get_fund_flow_rank or get_hot_concepts fetched
\* through fetch_with_fallback and cached the data, a second call within the
\* entry's 1800 s returns the cached value and invokes no closure, also when
\* the first call promoted another source.
C27_Original ==
    [][(SameAccessorAgain /\ FetchedAndCached(acc_log)
          /\ acc_log'.at < acc_log.at + 1800)
       => /\ acc_log'.hit
          /\ acc_log'.calls = <<>>
          /\ acc_log'.ret = acc_log.ret]_vars

\* What the code keeps of C27: the second call is served from the cache
\* when the first one left the preference as it was.  (Not a claim.)
CachedUnlessPromoted ==
    [][(SameAccessorAgain /\ FetchedAndCached(acc_log)
          /\ acc_log'.at < acc_log.at + 1800
          /\ get_data_source(config_file) = acc_log.pref)
       => /\ acc_log'.hit
          /\ acc_log'.calls = <<>>
          /\ acc_log'.ret = acc_log.ret]_vars

\* The latest call was get_market_radar_data and it asked the providers for
\* the ladder.
LadderTried == acc_log.name = "market_radar" /\ acc_log.ladder_calls # <<>>

\* C28 as stated: when the limit-up closure of the first-tried source finds
\* no ladder, the next source's closure is invoked; no source whose closure
\* found no ladder is returned as source_used or becomes the persisted
\* preference.
C28_Original ==
    LadderTried =>
        /\ LadderFuncs(providers)[acc_log.ladder_calls[1]] = "NoLadderTuple"
              => Len(acc_log.ladder_calls) >= 2
        /\ acc_log.ladder_source # "None"
              => LadderFuncs(providers)[acc_log.ladder_source] = "LadderTuple"
        /\ get_data_source(config_file) # acc_log.pref
              => \/ get_data_source(config_file) = acc_log.source_used
                 \/ LadderFuncs(providers)[get_data_source(config_file)] = "LadderTuple"

\* The call a ended with no data and stored the empty result for 120 s.
EmptyStored(a) ==
    /\ a.name \in {"index_overview", "market_radar"}
    /\ ~a.hit
    /\ a.ttl = 120

\* C29 as stated: after get_index_overview or get_market_radar_data stored
\* an empty result with ttl 120, a call of the same accessor more than 120 s
\* later, the preference being the same, misses the cache and tries the
\* providers again, at any time of day.
C29_Original ==
    [][(SameAccessorAgain /\ EmptyStored(acc_log)
          /\ acc_log'.at > acc_log.at + 120
          /\ acc_log'.pref = acc_log.pref)
       => /\ ~acc_log'.hit
          /\ acc_log'.calls # <<>>]_vars

\* What the code keeps of C29: the same, for an empty result stored during
\* trading hours.  (Not a claim.)
FailureRetriedInTradingHours ==
    [][(SameAccessorAgain /\ EmptyStored(acc_log)
          /\ _is_a_share_trading_hours(acc_log.at)
          /\ acc_log'.at > acc_log.at + 120
          /\ acc_log'.pref = acc_log.pref)
       => /\ ~acc_log'.hit
          /\ acc_log'.calls # <<>>]_vars

(***************************************************************************)
(* Properties of the registry called by several threads (under PrefSpec)   *)
(***************************************************************************)
\* C22 as stated: once get_data_source has read the persisted record, later
\* get_data_source calls do not read storage again, until set_data_source
\* writes the record.
C22_Original == ~reloaded

\* A get_data_source call of thread t has returned.
GetReturned(t) == ppc[t] = "done" /\ parg[t] = "none"

\* Two set_data_source calls of registered sources overlapped, both have
\* returned and at least one of them wrote its record.
BothWrote ==
    /\ overlap
    /\ \A t \in Threads : ppc[t] = "done" /\ parg[t] \in ValidSet
    /\ \E t \in Threads : pret[t] = "True"

\* C30 as stated: a get_data_source() that runs concurrently with a
\* set_data_source(s) returns the preference persisted before or s, never a
\* third value; two concurrent set_data_source calls leave the record
\* holding one of the two written values.
C30_Original ==
    /\ \A t \in Threads : GetReturned(t) => pret[t] \in cands[t]
    /\ BothWrote => config_file \in {parg[t] : t \in Threads}

\* The two halves of C30, apart.  (Not claims.)
ReadsAreConsistent == \A t \in Threads : GetReturned(t) => pret[t] \in cands[t]

WritesAreConsistent == BothWrote => config_file \in {parg[t] : t \in Threads}

(***************************************************************************)
(* Properties of the cache store called by several threads (under RaceSpec)*)
(***************************************************************************)
\* C19 as stated, its first half: whatever the interleaving of the threads'
\* get_cache and set_cache calls, no call raises.
C19_Original == \A t \in Threads : tret[t] # "KeyError"

(***************************************************************************)
(* Properties of the default duration (under TtlSpec)                      *)
(***************************************************************************)
\* The items of CACHE_DURATIONS whose prefix the key starts with, character
\* by character.
MatchingItems(key) ==
    {i \in 1..Len(CACHE_DURATIONS) :
        StrStartsWith(KeyChars(key), Chars(CACHE_DURATIONS[i][1]))}

\* The duration configured for the longest matching prefix, 300 without one.
LongestPrefixDefault(key) ==
    IF MatchingItems(key) = {} THEN 300
    ELSE LET i == CHOOSE i \in MatchingItems(key) :
                      \A j \in MatchingItems(key) :
                          Len(Chars(CACHE_DURATIONS[j][1])) <= Len(Chars(CACHE_DURATIONS[i][1]))
         IN  CACHE_DURATIONS[i][2]

\* No configured prefix is the beginning of another one, so that a key has
\* at most one matching prefix and the first match is the longest.
NoNestedPrefix ==
    \A i, j \in 1..Len(CACHE_DURATIONS) :
        i # j => ~StrStartsWith(Chars(CACHE_DURATIONS[i][1]), Chars(CACHE_DURATIONS[j][1]))

\* C16: set_cache called without a ttl uses the duration configured for the
\* longest CACHE_DURATIONS prefix the key starts with, and 300 s when no
\* configured prefix matches.
C16_DefaultTtl ==
    /\ NoNestedPrefix
    /\ (resolved # <<>> /\ arg_ttl = <<>>) =>
           resolved = <<LongestPrefixDefault(arg_key)>>

\* Defaults were resolved for "stock_list_sina" (a configured prefix).
C16_Witness ==
    /\ arg_key = <<"stock_list", "_sina">>
    /\ arg_ttl = <<>>
    /\ resolved = <<3600>>

Init == RegInit /\ RetryInit /\ workers = {1} /\ CacheIdle /\ TtlIdle /\ RaceIdle /\ PrefIdle /\ CalIdle /\ ConcIdle /\ AccIdle

Next == RegNext

\* Registry and orchestrator.
Spec == Init /\ [][Next]_vars

RetrySpecInit ==
    RegInit /\ config_file = "absent" /\ RetryInit /\ workers = {1} /\ CacheIdle /\ TtlIdle /\ RaceIdle /\ PrefIdle /\ CalIdle /\ ConcIdle /\ AccIdle

\* Retry client and rate limiter, calls made one after the other.
RetrySpec == RetrySpecInit /\ [][RetryNext]_vars

PoolSpecInit ==
    RegInit /\ config_file = "absent" /\ RetryInit /\ workers = Threads /\ CacheIdle
        /\ TtlIdle /\ RaceIdle /\ PrefIdle /\ CalIdle /\ ConcIdle /\ AccIdle

\* Retry client and rate limiter, calls made concurrently by the worker
\* threads.
PoolSpec == PoolSpecInit /\ [][RetryNext]_vars

CacheSpecInit ==
    RegInit /\ config_file = "absent" /\ RetryInit /\ workers = {1} /\ CacheInit /\ TtlIdle /\ RaceIdle /\ PrefIdle /\ CalIdle /\ ConcIdle /\ AccIdle

\* Cache store under a running clock.
CacheSpec == CacheSpecInit /\ [][CacheNext]_vars

TtlSpecInit ==
    RegInit /\ config_file = "absent" /\ RetryInit /\ workers = {1} /\ CacheIdle /\ TtlInit /\ RaceIdle /\ PrefIdle /\ CalIdle /\ ConcIdle /\ AccIdle

\* The defaulting of set_cache's duration, over the keys of ArgKeys.
TtlSpec == TtlSpecInit /\ [][TtlNext]_vars

RaceSpecInit ==
    RegInit /\ config_file = "absent" /\ RetryInit /\ workers = {1} /\ TtlIdle /\ RaceInit /\ PrefIdle /\ CalIdle /\ ConcIdle /\ AccIdle

\* The cache store called by two threads at once.
RaceSpec == RaceSpecInit /\ [][RaceNext]_vars

EntrySpecInit ==
    RegInit /\ config_file = "absent" /\ RetryInit /\ workers = {1} /\ EntryInit /\ TtlIdle /\ RaceIdle /\ PrefIdle /\ CalIdle /\ ConcIdle /\ AccIdle

\* The cache store of a fresh process, set_cache called with any duration.
EntrySpec == EntrySpecInit /\ [][EntryNext]_vars

CalSpecInit ==
    RegInit /\ config_file = "absent" /\ RetryInit /\ workers = {1} /\ CacheIdle /\ TtlIdle /\ RaceIdle /\ PrefIdle /\ CalInit /\ ConcIdle /\ AccIdle

\* The trading calendar asked at the instants of CalDays x CalTimes.
CalSpec == CalSpecInit /\ [][CalNext]_vars

ConcSpecInit ==
    RegInit /\ config_file = "absent" /\ RetryInit /\ workers = {1} /\ CacheIdle /\ TtlIdle /\ RaceIdle /\ PrefIdle /\ CalIdle /\ ConcIdle /\ AccIdle

\* One fetch_concurrent call.
ConcSpec == ConcSpecInit /\ [][ConcNext]_vars

AccSpecInit ==
    RegInit /\ RetryInit /\ workers = {1} /\ TtlIdle /\ RaceIdle /\ PrefIdle /\ CalIdle /\ ConcIdle /\ AccInit

\* The accessors called one after the other under a running clock.
AccSpec == AccSpecInit /\ [][AccNext]_vars

PrefSpecInit ==
    RegInit /\ RetryInit /\ workers = {1} /\ CacheIdle /\ TtlIdle /\ RaceIdle /\ PrefIdle /\ CalIdle /\ ConcIdle /\ AccIdle

\* The registry called by two threads at once.
PrefSpec == PrefSpecInit /\ [][PrefNext]_vars
=============================================================================
